---- MODULE Spec2Model ----
(***************************************************************************)
(* Verification model of the MCPHub hub-management handlers and of the     *)
(* routing core they drive.                                                *)
(*                                                                         *)
(* The management handlers (add_server, update_server, toggle_tool, ...)   *)
(* are translated from src/src/services/virtualServers/                    *)
(* hubManagementServer.ts and src/src/servers/hub-management/tools/*.ts.   *)
(* Every `await` of a handler is a suspension point, so a handler is a     *)
(* small process: Call (runs up to `await loadSettings()`), AfterLoad      *)
(* (runs up to `await saveSettings(settings)`), AfterSave (runs to the     *)
(* return).                                                                *)
(*                                                                         *)
(* Record constructors list their fields in the order in which the field   *)
(* names first occur in this module, which is the order TLC normalises     *)
(* records to.                                                             *)
(***************************************************************************)
EXTENDS Integers, FiniteSets, Sequences, TLC

\* ------------------------------------------------------------------------
\* Bounds of the model
\* ------------------------------------------------------------------------
MaxOps == 2            \* management tool calls issued in one behaviour
MaxGen == 2            \* runtime instances created per upstream name
MaxTimers == 1         \* restart_hub timers pending at once

\* ------------------------------------------------------------------------
\* Value universes
\* ------------------------------------------------------------------------
Undefined == "undefined"      \* a JavaScript `undefined` / absent field
NoOwner == "none"             \* a resource without `owner`

Servers == {"A", "B"}
ToolNames == {"ping", "nuke"}
Handlers == {"h1", "h2"}

\* tools an upstream advertises on listTools; it depends on what is run
AdvertisedTools(name, command) ==
    IF name = "A"
      THEN (IF command = "cmd2" THEN {"ping"} ELSE {"ping", "nuke"})
      ELSE {"ping"}

\* ------------------------------------------------------------------------
\* Settings (mcp_settings.json): mcpServers is an object keyed by name,
\* modelled as a function whose DOMAIN is the set of declared names.
\* ------------------------------------------------------------------------
ServerEntry(command, type, url, enabled, owner, tools) ==
    [command |-> command, type |-> type, url |-> url,
     enabled |-> enabled, owner |-> owner, tools |-> tools]

NoTools == [t \in {} |-> [enabled |-> "true", description |-> Undefined]]

EmptySettings == [n \in {} |-> ServerEntry("", "stdio", Undefined, TRUE, NoOwner, NoTools)]

\* obj[key] = value on an object that may or may not have the key
Put(obj, key, value) ==
    [k \in (DOMAIN obj) \cup {key} |-> IF k = key THEN value ELSE obj[k]]

\* delete obj[key]
Delete(obj, key) == [k \in (DOMAIN obj) \ {key} |-> obj[k]]

VARIABLES
    settings,     \* the stored settings: name -> server entry
    handlers,     \* handler -> [pc, op, args, local]
    runtimes,     \* the live upstream runtimes (set of records)
    genCount,     \* name -> number of runtimes created so far for it
    timers,       \* pending restart_hub timers
    opsIssued,    \* management calls issued so far
    catalog,      \* the tool catalog: the descriptors as of its last refresh
    catalogVersion,
    groups,       \* group id -> [owner, servers]
    sessions,     \* the open downstream sessions: id -> session
    lastCall,     \* the last tools/call and its outcome
    conn,         \* one upstream connection: its McpConnection, keep-alive
                  \* timer and the requests sent on it
    embeddings,   \* the rows of vector_embeddings: <<server_name, tool_name>>
    lastSearch,   \* the rows the last search_tools returned
    idle,         \* the SessionManager: its clock, session map and timeouts
    calls,        \* the tools/call requests of the downstream sessions, by id
    db,           \* db/connection.ts: the DataSource, initializationPromise,
                  \* the promises made and the callers
    chat,         \* the smart-group conversations: the shared service's
                  \* map, the ids the MCP tools returned and the last reply
    proposed,     \* the proposals of an analysis and the proposals returned
    vault,        \* the stored secrets and the last exported configuration
    twin,         \* the settings of the two hub-management servers and the
                  \* outcomes of the last call made to both
    app           \* the AppServer: how far initialize() is, the handlers
                  \* registered, the upstreams and the last request

storeVars == <<settings, handlers, runtimes, genCount, timers, opsIssued>>
catalogVars == <<catalog, catalogVersion>>
sessionVars == <<sessions, lastCall>>
vars == <<settings, handlers, runtimes, genCount, timers, opsIssued,
          catalog, catalogVersion, groups, sessions, lastCall, conn,
          embeddings, lastSearch, idle, calls, db, chat,
          proposed, vault, twin, app>>
indexVars == <<embeddings, lastSearch>>
lateVars == <<proposed, vault, twin, app>>
extVars == <<indexVars, idle, calls, db, chat, lateVars>>

\* ------------------------------------------------------------------------
\* Arguments of the management tools.  An optional argument that is not
\* provided is Undefined; optional booleans are the strings "true"/"false".
\* ------------------------------------------------------------------------
Args(name, command, type, url, enabled, toolName, description, updates) ==
    [name |-> name, command |-> command, type |-> type, url |-> url,
     enabled |-> enabled, description |-> description, toolName |-> toolName,
     updates |-> updates]

NoArgs == Args("A", Undefined, Undefined, Undefined, Undefined, "ping", Undefined, <<>>)

Update(server, toolName, enabled) ==
    [enabled |-> enabled, toolName |-> toolName, server |-> server]

AddServerInputs ==
    { Args("A", c, Undefined, Undefined, e, "ping", Undefined, <<>>) :
        c \in {Undefined, "cmd1"}, e \in {Undefined, "false"} }
    \cup { Args("B", Undefined, "sse", u, Undefined, "ping", Undefined, <<>>) :
             u \in {Undefined, "http://b"} }

UpdateServerInputs ==
    { Args("A", c, Undefined, Undefined, Undefined, "ping", Undefined, <<>>) :
        c \in {Undefined, "cmd1", "cmd2"} }

NameInputs ==
    { Args(n, Undefined, Undefined, Undefined, Undefined, "ping", Undefined, <<>>) :
        n \in Servers }

ToggleServerInputs ==
    { Args("A", Undefined, Undefined, Undefined, e, "ping", Undefined, <<>>) :
        e \in {"true", "false"} }

ToggleToolInputs ==
    { Args("A", Undefined, Undefined, Undefined, e, t, Undefined, <<>>) :
        t \in ToolNames, e \in {"true", "false"} }
    \cup { Args("B", Undefined, Undefined, Undefined, "false", "ping", Undefined, <<>>) }

ToolMetadataInputs ==
    { Args("A", Undefined, Undefined, Undefined, Undefined, "ping", d, <<>>) :
        d \in {Undefined, "", "Forecast service"} }

BatchInputs ==
    { Args("A", Undefined, Undefined, Undefined, Undefined, "ping", Undefined, ups) :
        ups \in { <<Update("A", "ping", "false"), Update("A", "nuke", "false")>>,
                  <<Update("ghost", "ping", "false"), Update("B", "ping", "false")>> } }

\* the calls a client can issue
Calls ==
    { <<"add_server", a>> : a \in AddServerInputs }
    \cup { <<"update_server", a>> : a \in UpdateServerInputs }
    \cup { <<"delete_server", a>> : a \in NameInputs }
    \cup { <<"toggle_server", a>> : a \in ToggleServerInputs }
    \cup { <<"toggle_tool", a>> : a \in ToggleToolInputs }
    \cup { <<"update_tool_metadata", a>> : a \in ToolMetadataInputs }
    \cup { <<"batch_toggle_tools", a>> : a \in BatchInputs }

\* ------------------------------------------------------------------------
\* The handlers' bodies between `await loadSettings()` and
\* `await saveSettings(settings)`: the error thrown, or the new settings.
\* ------------------------------------------------------------------------

\* the `settings.mcpServers[server].tools[toolName]` entry after the handler
\* has made sure it exists (`= { enabled: true }` when missing)
EnsureTool(tools, toolName) ==
    IF toolName \in DOMAIN tools
      THEN tools
      ELSE Put(tools, toolName, [enabled |-> "true", description |-> Undefined])

SetToolEnabled(s, server, toolName, enabled) ==
    LET tools == EnsureTool(s[server].tools, toolName)
    IN  [s EXCEPT ![server].tools =
            [tools EXCEPT ![toolName].enabled = enabled]]

RECURSIVE ApplyUpdates(_, _)
ApplyUpdates(s, ups) ==
    IF ups = <<>> THEN s
    ELSE LET u == Head(ups)
         IN  IF u.server \notin DOMAIN s
               THEN ApplyUpdates(s, Tail(ups))
               ELSE ApplyUpdates(SetToolEnabled(s, u.server, u.toolName, u.enabled),
                                 Tail(ups))

\* add_server: the serverConfig it builds
NewServerConfig(a) ==
    ServerEntry(IF a.command = Undefined THEN "" ELSE a.command,
                IF a.type = Undefined THEN "stdio" ELSE a.type,
                a.url,
                a.enabled # "false",
                NoOwner,
                NoTools)

\* "ok", or the message of the Error the handler throws before saving
HandlerError(op, a, s) ==
    CASE op = "add_server" ->
           IF a.name \in DOMAIN s THEN "already exists"
           ELSE IF NewServerConfig(a).type = "stdio" /\ NewServerConfig(a).command = ""
             THEN "Command is required for stdio servers"
           ELSE IF NewServerConfig(a).type \in {"sse", "streamable-http"}
                   /\ NewServerConfig(a).url = Undefined
             THEN "URL is required for SSE/HTTP servers"
           ELSE "ok"
      [] op \in {"update_server", "delete_server", "toggle_server",
                 "toggle_tool", "update_tool_metadata"} ->
           IF a.name \notin DOMAIN s THEN "not found" ELSE "ok"
      [] OTHER -> "ok"

\* the settings object the handler hands to saveSettings
HandlerResult(op, a, s) ==
    CASE op = "add_server" -> Put(s, a.name, NewServerConfig(a))
      [] op = "update_server" ->
           [s EXCEPT ![a.name] =
               [@ EXCEPT !.command = IF a.command # Undefined THEN a.command ELSE @,
                         !.type = IF a.type # Undefined THEN a.type ELSE @,
                         !.url = IF a.url # Undefined THEN a.url ELSE @]]
      [] op = "delete_server" -> Delete(s, a.name)
      [] op = "toggle_server" -> [s EXCEPT ![a.name].enabled = (a.enabled = "true")]
      [] op = "toggle_tool" -> SetToolEnabled(s, a.name, a.toolName, a.enabled)
      [] op = "update_tool_metadata" ->
           LET tools == EnsureTool(s[a.name].tools, a.toolName)
           IN  [s EXCEPT ![a.name].tools =
                   IF a.description # Undefined
                     THEN [tools EXCEPT ![a.toolName].description = a.description]
                     ELSE tools]
      [] op = "batch_toggle_tools" -> ApplyUpdates(s, a.updates)
      [] OTHER -> s

ReinitOps_NoToggleServer == {"add_server", "update_server", "delete_server"}

ReinitOps_WithToggleTool ==
    {"add_server", "update_server", "delete_server", "toggle_server", "toggle_tool"}

\* the handlers that reinitialize the upstream clients after saving
ReinitOps == {"add_server", "update_server", "delete_server", "toggle_server"}

\* ------------------------------------------------------------------------
\* Upstream runtimes
\* ------------------------------------------------------------------------
Idle == [op |-> "none", pc |-> "idle", args |-> NoArgs, local |-> EmptySettings]

EnabledNames(s) == {n \in DOMAIN s : s[n].enabled}

LiveNames(rts) == {r.name : r \in rts}

\* one new runtime for every enabled declared upstream
RebuiltRuntimes(s, gc) ==
    { [name |-> n, command |-> s[n].command, type |-> s[n].type,
       url |-> s[n].url, tools |-> {}, gen |-> gc[n] + 1, state |-> "connecting"] :
        n \in EnabledNames(s) }

Reinitialized_KeepOld(rts, s, gc) == rts \cup RebuiltRuntimes(s, gc)

\* mcpService.initializeClientsFromSettings(false) on the live runtimes rts:
\* the full upstream set is rebuilt from the stored settings; every live
\* runtime is closed, then one is created for every enabled declared upstream
Reinitialized(rts, s, gc) == RebuiltRuntimes(s, gc)

CanRebuild(s, gc) == \A n \in EnabledNames(s) : gc[n] < MaxGen

RebuiltGenCount(s, gc) ==
    [n \in Servers |-> IF n \in EnabledNames(s) THEN gc[n] + 1 ELSE gc[n]]

\* ------------------------------------------------------------------------
\* Initial settings files
\* ------------------------------------------------------------------------
SettingsA ==
    Put(EmptySettings, "A",
        ServerEntry("cmd1", "stdio", Undefined, TRUE, NoOwner, NoTools))

SettingsAB ==
    Put(SettingsA, "B",
        ServerEntry("", "sse", "http://b", TRUE, "alice",
                    Put(NoTools, "ping",
                        [enabled |-> Undefined, description |-> "Send a ping"])))

InitialSettings == {EmptySettings, SettingsA, SettingsAB}

StoreInit ==
    /\ settings \in InitialSettings
    /\ handlers = [h \in Handlers |-> Idle]
    /\ genCount = [n \in Servers |-> IF n \in EnabledNames(settings) THEN 1 ELSE 0]
    /\ runtimes = RebuiltRuntimes(settings, [n \in Servers |-> 0])
    /\ timers = 0
    /\ opsIssued = 0

\* ------------------------------------------------------------------------
\* The management handlers, one action per stretch between two awaits
\* ------------------------------------------------------------------------

\* callTool(name, args) up to the handler's `await loadSettings()`
Call(h, op, a) ==
    /\ handlers[h].pc = "idle"
    /\ opsIssued < MaxOps
    /\ handlers' = [handlers EXCEPT ![h] =
          [op |-> op, pc |-> "loaded", args |-> a, local |-> settings]]
    /\ opsIssued' = opsIssued + 1
    /\ UNCHANGED <<settings, runtimes, genCount, timers>>
    /\ UNCHANGED <<conn, extVars, catalogVars, groups, sessionVars>>

\* from the loaded settings to `await saveSettings(settings)`, or to the throw
AfterLoad(h) ==
    LET c == handlers[h]
        err == HandlerError(c.op, c.args, c.local)
    IN  /\ c.pc = "loaded"
        /\ IF err # "ok"
             THEN /\ handlers' = [handlers EXCEPT ![h] = Idle]
                  /\ UNCHANGED settings
             ELSE /\ settings' = HandlerResult(c.op, c.args, c.local)
                  /\ handlers' = [handlers EXCEPT ![h].pc = "saved",
                                                  ![h].local = settings']
        /\ UNCHANGED <<runtimes, genCount, timers, opsIssued>>
        /\ UNCHANGED <<conn, extVars, catalogVars, groups, sessionVars>>

\* from the saved settings to the return
AfterSave(h) ==
    LET c == handlers[h]
    IN  /\ c.pc = "saved"
        /\ IF c.op \in ReinitOps
             THEN /\ CanRebuild(settings, genCount)
                  /\ runtimes' = Reinitialized(runtimes, settings, genCount)
                  /\ genCount' = RebuiltGenCount(settings, genCount)
             ELSE UNCHANGED <<runtimes, genCount>>
        /\ handlers' = [handlers EXCEPT ![h] = Idle]
        /\ UNCHANGED <<settings, timers, opsIssued>>
        /\ UNCHANGED <<conn, extVars, catalogVars, groups, sessionVars>>

\* what callTool(name, args) hands back for a call whose executeTool threw
\* the Error with message err, or returned ("ok"): in both cases a result
\* (jsonrpc "result", not "error") with one text item; the Error's message is
\* put in the text
HubCallTool(err) ==
    [jsonrpc |-> "result",
     text |-> IF err = "ok" THEN "ok" ELSE "Error: " \o err]

\* restart_hub: setTimeout(() => initializeClientsFromSettings(false), delay)
RestartHub ==
    /\ opsIssued < MaxOps
    /\ timers < MaxTimers
    /\ timers' = timers + 1
    /\ opsIssued' = opsIssued + 1
    /\ UNCHANGED <<settings, handlers, runtimes, genCount>>
    /\ UNCHANGED <<conn, extVars, catalogVars, groups, sessionVars>>

\* the restart_hub timer fires
RestartTimer ==
    /\ timers > 0
    /\ CanRebuild(settings, genCount)
    /\ timers' = timers - 1
    /\ runtimes' = Reinitialized(runtimes, settings, genCount)
    /\ genCount' = RebuiltGenCount(settings, genCount)
    /\ UNCHANGED <<settings, handlers, opsIssued>>
    /\ UNCHANGED <<conn, extVars, catalogVars, groups, sessionVars>>

\* a connecting upstream answers initialize and listTools
UpstreamReady(n) ==
    \E r \in runtimes :
        /\ r.name = n
        /\ r.state = "connecting"
        /\ runtimes' = (runtimes \ {r}) \cup
              {[r EXCEPT !.state = "ready",
                         !.tools = AdvertisedTools(r.name, r.command)]}
        /\ UNCHANGED <<settings, handlers, genCount, timers, opsIssued>>
        /\ UNCHANGED <<conn, extVars, catalogVars, groups, sessionVars>>

StoreNext ==
    \/ \E h \in Handlers, c \in Calls : Call(h, c[1], c[2])
    \/ \E h \in Handlers : AfterLoad(h)
    \/ \E h \in Handlers : AfterSave(h)
    \/ RestartHub
    \/ RestartTimer
    \/ \E n \in Servers : UpstreamReady(n)

\* ------------------------------------------------------------------------
\* Principals, ownership, groups
\* ------------------------------------------------------------------------
Admin == [id |-> "root", isAdmin |-> TRUE]
Alice == [id |-> "alice", isAdmin |-> FALSE]
Bob == [id |-> "bob", isAdmin |-> FALSE]
Principals == {Admin, Alice, Bob}

GroupIds == {"g1", "g2"}

canAccess_AnyOwner(resource, user) == TRUE

\* MultiTenantService.canAccess
canAccess(resource, user) ==
    IF user.isAdmin THEN TRUE
    ELSE IF resource.owner = NoOwner THEN TRUE
    ELSE resource.owner = user.id

\* one entry of group.servers: { name, selectedTools? }; the conversational
\* group creator writes its tool list to `tools` instead
GroupServer(hasSelected, selectedTools, tools) ==
    [tools |-> tools, hasSelected |-> hasSelected, selectedTools |-> selectedTools]

NoServers == [n \in {} |-> GroupServer(FALSE, {}, {})]
NoGroups == [g \in {} |-> [owner |-> NoOwner, servers |-> NoServers]]

\* get_group_effective_tools: `!selectedTools.length ||
\* selectedTools.includes(tool.name)` with selectedTools defaulting to []
GroupAllows_NoFilter(entry, toolName) == TRUE

GroupAllows(entry, toolName) ==
    LET selectedTools == IF entry.hasSelected THEN entry.selectedTools ELSE {}
    IN  selectedTools = {} \/ toolName \in selectedTools

\* ------------------------------------------------------------------------
\* Tool catalog
\* ------------------------------------------------------------------------
ReportedDescription(name, toolName) == toolName \o " of " \o name

ToolEnabled_OnlyTrue(enabled) == enabled = "true"

\* list_all_tools: `toolConfig?.enabled !== false`
ToolEnabled(enabled) == enabled # "false"

\* list_all_tools: `toolConfig?.description || tool.description`
EffectiveDescription(override, reported) ==
    IF override # Undefined /\ override # "" THEN override ELSE reported

Descriptor(s, name, toolName) ==
    LET tools == s[name].tools
        has == toolName \in DOMAIN tools
    IN  [enabled |-> IF has THEN tools[toolName].enabled ELSE Undefined,
         description |->
            EffectiveDescription(IF has THEN tools[toolName].description ELSE Undefined,
                                 ReportedDescription(name, toolName)),
         toolName |-> toolName, upstreamName |-> name]

\* the descriptors of every tool a connected client of an enabled declared
\* upstream lists, with the settings overlay applied
EffectiveDescriptors(s, rts) ==
    UNION { { Descriptor(s, r.name, t) : t \in r.tools } :
            r \in { q \in rts : /\ q.state = "ready"
                                /\ q.name \in DOMAIN s
                                /\ s[q.name].enabled } }

\* ------------------------------------------------------------------------
\* Group & access resolver
\* ------------------------------------------------------------------------
Scope(kind, id) == [id |-> id, kind |-> kind]
Global == Scope("global", "")
Smart == Scope("smart", "$smart")

VisibleUpstream(s, n, user) ==
    n \in DOMAIN s /\ s[n].enabled /\ canAccess(s[n], user)

Resolver(scope, user, s, g) ==
    CASE scope.kind = "upstream" ->
           { [upstreamName |-> n, allowedTools |-> ToolNames] :
               n \in { m \in {scope.id} : VisibleUpstream(s, m, user) } }
      [] scope.kind = "group" ->
           IF scope.id \in DOMAIN g /\ canAccess(g[scope.id], user)
             THEN { [upstreamName |-> n,
                     allowedTools |->
                        { t \in ToolNames : GroupAllows(g[scope.id].servers[n], t) }] :
                    n \in { m \in DOMAIN g[scope.id].servers :
                              VisibleUpstream(s, m, user) } }
             ELSE {}
      [] OTHER ->
           { [upstreamName |-> n, allowedTools |-> ToolNames] :
               n \in { m \in DOMAIN s : VisibleUpstream(s, m, user) } }

\* ------------------------------------------------------------------------
\* Request router: tools/list and tools/call
\* ------------------------------------------------------------------------
Filtered_AnyUpstream(scope, user, s, g, cat) ==
    { d \in cat : ToolEnabled(d.enabled) }

Filtered(scope, user, s, g, cat) ==
    { d \in cat :
        /\ ToolEnabled(d.enabled)
        /\ \E r \in Resolver(scope, user, s, g) :
              r.upstreamName = d.upstreamName /\ d.toolName \in r.allowedTools }

EffectiveName_FirstBare(d, filtered) ==
    IF /\ \E e \in filtered : e.toolName = d.toolName /\ e.upstreamName # d.upstreamName
       /\ d.upstreamName # "A"
      THEN d.upstreamName \o "__" \o d.toolName
      ELSE d.toolName

EffectiveName(d, filtered) ==
    IF \E e \in filtered : e.toolName = d.toolName /\ e.upstreamName # d.upstreamName
      THEN d.upstreamName \o "__" \o d.toolName
      ELSE d.toolName

Listing(filtered) ==
    { [name |-> EffectiveName(d, filtered), description |-> d.description,
       toolName |-> d.toolName, upstreamName |-> d.upstreamName] : d \in filtered }

SmartTools ==
    { [name |-> n, description |-> "smart routing", toolName |-> n,
       upstreamName |-> "$smart"] : n \in {"search_tools", "call_tool"} }

ToolsList(scope, user, s, g, cat) ==
    IF scope.kind = "smart"
      THEN SmartTools
      ELSE Listing(Filtered(scope, user, s, g, cat))

\* the names the catalog's tools would carry with no scope or principal filter
UnfilteredNames(cat) == { i.name : i \in Listing(cat) }

ToolsCall_ByToolName(scope, user, name, s, g, cat, rts) ==
    LET hit == { i \in ToolsList(scope, user, s, g, cat) : i.toolName = name }
    IN  IF hit # {}
          THEN LET i == CHOOSE j \in hit : TRUE
               IN  [toolName |-> i.toolName, upstreamName |-> i.upstreamName,
                    outcome |-> "forwarded"]
          ELSE [toolName |-> name, upstreamName |-> "", outcome |-> "ToolNotFound"]

ToolsCall(scope, user, name, s, g, cat, rts) ==
    LET view == ToolsList(scope, user, s, g, cat)
        hit == { i \in view : i.name = name }
    IN  IF hit # {}
          THEN LET i == CHOOSE j \in hit : TRUE
               IN  IF \E r \in rts : r.name = i.upstreamName /\ r.state = "ready"
                     THEN [toolName |-> i.toolName, upstreamName |-> i.upstreamName,
                           outcome |-> "forwarded"]
                     ELSE [toolName |-> i.toolName, upstreamName |-> i.upstreamName,
                           outcome |-> "UpstreamUnavailable"]
          ELSE IF name \in UnfilteredNames(cat)
            THEN [toolName |-> name, upstreamName |-> "", outcome |-> "ToolNotAllowed"]
            ELSE [toolName |-> name, upstreamName |-> "", outcome |-> "ToolNotFound"]

\* ------------------------------------------------------------------------
\* Catalog reconciliation and the session manager
\* ------------------------------------------------------------------------
MaxVersion == 3        \* catalog version bumps in one behaviour
MaxNotifs == 2         \* list_changed notifications per session

SessionIds == {"s1", "s2"}
NoSessions ==
    [i \in {} |-> [scope |-> Global, principal |-> Admin, sentView |-> {},
                   seenVersion |-> 0, notifications |-> 0]]
NoCall == [name |-> "", toolName |-> "", upstreamName |-> "", outcome |-> "none",
           principal |-> Admin, session |-> ""]

\* the version after the catalog task replaced the published set old by new
BumpedVersion_FromSize(v, old, new) == IF new # old THEN Cardinality(new) ELSE v

BumpedVersion_Always(v, old, new) == v + 1

BumpedVersion(v, old, new) == IF new # old THEN v + 1 ELSE v

\* the catalog task: recompute the effective descriptors; bump the version
\* when, and only when, the set differs from the one published
CatalogRefresh ==
    LET new == EffectiveDescriptors(settings, runtimes)
    IN  /\ catalogVersion < MaxVersion
        /\ catalog' = new
        /\ catalogVersion' = BumpedVersion(catalogVersion, catalog, new)
        /\ UNCHANGED <<conn, extVars, storeVars, groups, sessionVars>>

View(sess) == ToolsList(sess.scope, sess.principal, settings, groups, catalog)

\* a session after the manager re-resolved its filtered view: one
\* notifications/tools/list_changed if the view differs from the one last sent
Renotified_Always(sess, view) ==
    [sess EXCEPT !.notifications = @ + 1, !.sentView = view]

Renotified(sess, view) ==
    IF view # sess.sentView
      THEN [sess EXCEPT !.notifications = @ + 1, !.sentView = view]
      ELSE sess

ScopeAccepted_Always(scope, user, s, g) == TRUE

\* a scope other than the global one is accepted only if the resolver
\* returns at least one upstream for it
ScopeAccepted(scope, user, s, g) ==
    scope.kind # "global" => Resolver(scope, user, s, g) # {}

\* a session is created on initialize
OpenSession(sid, scope, user) ==
    /\ sid \notin DOMAIN sessions
    /\ ScopeAccepted(scope, user, settings, groups)
    /\ sessions' = Put(sessions, sid,
          [scope |-> scope, principal |-> user,
           sentView |-> ToolsList(scope, user, settings, groups, catalog),
           seenVersion |-> catalogVersion, notifications |-> 0])
    /\ UNCHANGED <<conn, extVars, storeVars, catalogVars, groups, lastCall>>

\* initialize on a scope that is not accepted: no session is created
RejectSession(sid, scope, user) ==
    /\ sid \notin DOMAIN sessions
    /\ ~ScopeAccepted(scope, user, settings, groups)
    /\ lastCall' = [name |-> "initialize", toolName |-> "",
                    upstreamName |-> scope.id, outcome |-> "ScopeNotFound",
                    principal |-> user, session |-> sid]
    /\ UNCHANGED <<conn, extVars, storeVars, catalogVars, groups, sessions>>

CreateSession(sid, scope, user) ==
    \/ OpenSession(sid, scope, user)
    \/ RejectSession(sid, scope, user)

MaxCalls == 2

NoCalls == <<>>

Cancelled_None(cs, sid) == cs

\* the outstanding tools/call requests of a closing session are cancelled
Cancelled(cs, sid) ==
    [id \in DOMAIN cs |->
        IF cs[id].session = sid /\ cs[id].outcome = "inflight"
          THEN [cs[id] EXCEPT !.outcome = "cancelled"]
          ELSE cs[id]]

\* on close the session entry is removed and its outstanding calls cancelled
CloseSession(sid) ==
    /\ sid \in DOMAIN sessions
    /\ sessions' = Delete(sessions, sid)
    /\ calls' = Cancelled(calls, sid)
    /\ UNCHANGED <<conn, indexVars, idle, db, chat, lateVars, storeVars, catalogVars, groups, lastCall>>

\* tools/list
ListTools(sid) ==
    /\ sid \in DOMAIN sessions
    /\ sessions' = [sessions EXCEPT ![sid].sentView = View(sessions[sid]),
                                    ![sid].seenVersion = catalogVersion]
    /\ UNCHANGED <<conn, extVars, storeVars, catalogVars, groups, lastCall>>

\* the manager handles a catalog-version change for one session
SessionNotify(sid) ==
    /\ sid \in DOMAIN sessions
    /\ sessions[sid].seenVersion # catalogVersion
    /\ sessions[sid].notifications < MaxNotifs
    /\ sessions' = [sessions EXCEPT ![sid] =
          [Renotified(sessions[sid], View(sessions[sid]))
             EXCEPT !.seenVersion = catalogVersion]]
    /\ UNCHANGED <<conn, extVars, storeVars, catalogVars, groups, lastCall>>

\* tools/call
CallTool(sid, name) ==
    /\ sid \in DOMAIN sessions
    /\ sessions[sid].scope.kind # "smart"
    /\ LET res == ToolsCall(sessions[sid].scope, sessions[sid].principal, name,
                            settings, groups, catalog, runtimes)
       IN  lastCall' = [name |-> name, toolName |-> res.toolName,
                        upstreamName |-> res.upstreamName, outcome |-> res.outcome,
                        principal |-> sessions[sid].principal, session |-> sid]
    /\ UNCHANGED <<conn, extVars, storeVars, catalogVars, groups, sessions>>

\* the router retrying a failed upstream request on the client's behalf
Answered_Retry(c, ok) ==
    CASE c.outcome = "inflight" /\ ok ->
           [c EXCEPT !.outcome = "result", !.responses = c.responses + 1]
      [] c.outcome = "inflight" /\ ~ok ->
           IF c.forwards < 2
             THEN [c EXCEPT !.forwards = c.forwards + 1]
             ELSE [c EXCEPT !.outcome = "UpstreamError", !.responses = c.responses + 1]
      [] OTHER -> [c EXCEPT !.outcome = "dropped"]

\* the upstream's answer to the one request sent for the call: the result,
\* or the error, goes to the downstream client; the answer to a cancelled
\* call is dropped
Answered(c, ok) ==
    CASE c.outcome = "inflight" /\ ok ->
           [c EXCEPT !.outcome = "result", !.responses = c.responses + 1]
      [] c.outcome = "inflight" /\ ~ok ->
           [c EXCEPT !.outcome = "UpstreamError", !.responses = c.responses + 1]
      [] OTHER -> [c EXCEPT !.outcome = "dropped"]

\* tools/call with request id `id`: resolved as in ToolsCall, then sent to
\* the upstream once, or answered at once with the error
BeginCall(id, sid, name) ==
    /\ id = Cardinality(DOMAIN calls) + 1
    /\ id <= MaxCalls
    /\ sid \in DOMAIN sessions
    /\ sessions[sid].scope.kind # "smart"
    /\ LET res == ToolsCall(sessions[sid].scope, sessions[sid].principal, name,
                            settings, groups, catalog, runtimes)
           sent == res.outcome = "forwarded"
       IN  calls' = Put(calls, id,
              [name |-> name, upstreamName |-> res.upstreamName,
               outcome |-> IF sent THEN "inflight" ELSE res.outcome,
               session |-> sid,
               responses |-> IF sent THEN 0 ELSE 1,
               forwards |-> IF sent THEN 1 ELSE 0])
    /\ UNCHANGED <<conn, indexVars, idle, db, chat, lateVars, storeVars, catalogVars, groups, sessionVars>>

\* the upstream answers, or its transport fails
UpstreamAnswers(id, ok) ==
    /\ id \in DOMAIN calls
    /\ calls[id].outcome \in {"inflight", "cancelled"}
    /\ calls' = [calls EXCEPT ![id] = Answered(calls[id], ok)]
    /\ UNCHANGED <<conn, indexVars, idle, db, chat, lateVars, storeVars, catalogVars, groups, sessionVars>>

\* the smart group's call_tool: getServerByName(server), then
\* serverInfo.tools.find(t => t.name === tool), then
\* serverInfo.client.callTool(tool, toolArgs)
callTool(server, tool, rts) ==
    IF ~\E r \in rts : r.name = server
      THEN [toolName |-> tool, upstreamName |-> server,
            outcome |-> "Server not found"]
    ELSE IF tool \notin (CHOOSE r \in rts : r.name = server).tools
      THEN [toolName |-> tool, upstreamName |-> server,
            outcome |-> "Tool not found"]
    ELSE [toolName |-> tool, upstreamName |-> server, outcome |-> "forwarded"]

\* tools/call of call_tool in a smart session
SmartCallTool(sid, server, tool) ==
    /\ sid \in DOMAIN sessions
    /\ sessions[sid].scope.kind = "smart"
    /\ LET res == callTool(server, tool, runtimes)
       IN  lastCall' = [name |-> "call_tool", toolName |-> res.toolName,
                        upstreamName |-> res.upstreamName, outcome |-> res.outcome,
                        principal |-> sessions[sid].principal, session |-> sid]
    /\ UNCHANGED <<conn, extVars, storeVars, catalogVars, groups, sessions>>

\* the names a client may put in a tools/call
CallNames == ToolNames \cup {"B__ping"}

\* notifyToolChanged(): every open session's view is re-resolved
NotifyToolChanged(sess) ==
    [sid \in DOMAIN sess |-> Renotified(sess[sid], View(sess[sid]))]

CanNotifyAll == \A sid \in DOMAIN sessions : sessions[sid].notifications < MaxNotifs

\* the settings file watcher: clearSettingsCache(); await reloadServers();
\* notifyToolChanged()
HotReload ==
    /\ CanRebuild(settings, genCount)
    /\ CanNotifyAll
    /\ runtimes' = Reinitialized(runtimes, settings, genCount)
    /\ genCount' = RebuiltGenCount(settings, genCount)
    /\ sessions' = NotifyToolChanged(sessions)
    /\ UNCHANGED <<conn, extVars, settings, handlers, timers, opsIssued, catalogVars, groups, lastCall>>

\* ------------------------------------------------------------------------
\* Group management
\* ------------------------------------------------------------------------
FreshGroupId == IF "g1" \notin DOMAIN groups THEN "g1" ELSE "g2"

Entries(names, entry) == [n \in names |-> entry]

GroupServersInputs ==
    { Entries({"A"}, GroupServer(TRUE, {"ping"}, {})),
      Entries({"A"}, GroupServer(TRUE, {}, {})),
      Entries({"A", "B"}, GroupServer(FALSE, {}, {})) }

NewGroup(owner, servers) == [owner |-> owner, servers |-> servers]

\* create_group: groupService.createGroup(name, description, servers)
CreateGroup(servers) ==
    /\ opsIssued < MaxOps
    /\ DOMAIN groups # GroupIds
    /\ groups' = Put(groups, FreshGroupId, NewGroup(NoOwner, servers))
    /\ opsIssued' = opsIssued + 1
    /\ UNCHANGED <<conn, extVars, settings, handlers, runtimes, genCount, timers,
                   catalogVars, sessionVars>>

\* ConversationalGroupService.createSelectedGroups, for one proposal:
\* createGroup(name, description, [{ name, tools }], userId || 'smart-group-creator')
CreateSelectedGroups(userId, proposal) ==
    /\ opsIssued < MaxOps
    /\ DOMAIN groups # GroupIds
    /\ groups' = Put(groups, FreshGroupId,
          NewGroup(IF userId = Undefined THEN "smart-group-creator" ELSE userId,
                   [n \in proposal.servers |->
                      GroupServer(FALSE, {},
                                  { t[2] : t \in { u \in proposal.tools : u[1] = n } })]))
    /\ opsIssued' = opsIssued + 1
    /\ UNCHANGED <<conn, extVars, settings, handlers, runtimes, genCount, timers,
                   catalogVars, sessionVars>>

\* groupController.createNewGroup: owner = user.username, then
\* notifyToolChanged()
CreateNewGroup(user, servers) ==
    /\ opsIssued < MaxOps
    /\ DOMAIN groups # GroupIds
    /\ CanNotifyAll
    /\ groups' = Put(groups, FreshGroupId, NewGroup(user.id, servers))
    /\ sessions' =
          [sid \in DOMAIN sessions |->
              Renotified(sessions[sid],
                         ToolsList(sessions[sid].scope, sessions[sid].principal,
                                   settings, groups', catalog))]
    /\ opsIssued' = opsIssued + 1
    /\ UNCHANGED <<conn, extVars, settings, handlers, runtimes, genCount, timers,
                   catalogVars, lastCall>>

\* add_server_to_group: groupService.addServerToGroup(groupId, serverName,
\* selectedTools)
AddServerToGroup(gid, name, entry) ==
    /\ opsIssued < MaxOps
    /\ gid \in DOMAIN groups
    /\ groups' = [groups EXCEPT ![gid].servers = Put(@, name, entry)]
    /\ opsIssued' = opsIssued + 1
    /\ UNCHANGED <<conn, extVars, settings, handlers, runtimes, genCount, timers,
                   catalogVars, sessionVars>>

\* ------------------------------------------------------------------------
\* The connection to one upstream: McpConnection, KeepAliveManager and the
\* requests ToolManager and executeTool send on it
\* ------------------------------------------------------------------------
maxRetries == 3

keepAliveThreshold == 2    \* keep-alive failures that degrade a connection

MaxAge == 4                \* keep-alive intervals counted since tools/list

Transports == {"stdio", "sse"}

hubVars == <<storeVars, catalogVars, groups, sessionVars, extVars>>

\* const delay = Math.pow(2, this.retryCount) * 1000
BackoffDelay_Linear(retryCount) == 2 * retryCount * 1000

BackoffDelay(retryCount) == (2 ^ retryCount) * 1000

\* transport instanceof SSEClientTransport || WebSocketTransport
requiresKeepAlive(transport) == transport \in {"sse", "websocket"}

\* a connection as constructed: status 'disconnected', retryCount 0.
\* initialized, toolsListed, toolsAge, lastPing, lastRequest and early record
\* what happened on the current connection
NewConnection(transport) ==
    [retryCount |-> 0, transport |-> transport, status |-> "disconnected",
     delay |-> 0, initialized |-> FALSE, toolsListed |-> FALSE,
     toolsAge |-> 0, keepAlive |-> FALSE, pingFailures |-> 0,
     lastPing |-> "none", lastRequest |-> "none", early |-> FALSE]

Unconnected == NewConnection("stdio")

\* connect(): this.status = 'connecting'; a new connection is being made
Connecting(c) ==
    [c EXCEPT !.status = "connecting", !.initialized = FALSE,
              !.toolsListed = FALSE, !.toolsAge = 0, !.keepAlive = FALSE,
              !.pingFailures = 0, !.lastPing = "none"]

\* await this.transport.connect() returned: this.status = 'initializing';
\* await this.initialize()
TransportReady_SkipInitialize(c) == [c EXCEPT !.status = "connected"]

TransportReady(c) ==
    [c EXCEPT !.status = "initializing", !.lastRequest = "initialize"]

\* initialize returned: this.status = 'connected'; this.setupKeepAlive();
\* this.retryCount = 0
Initialized_Unrecorded(c) ==
    [c EXCEPT !.status = "connected",
              !.keepAlive = requiresKeepAlive(c.transport), !.retryCount = 0]

Initialized(c) ==
    [c EXCEPT !.status = "connected", !.initialized = TRUE,
              !.keepAlive = requiresKeepAlive(c.transport), !.retryCount = 0]

\* handleConnectionError, up to the sleep: retry while retryCount <
\* maxRetries, else 'disconnected' and the error is thrown
handleConnectionError_Unlimited(c) ==
    [c EXCEPT !.status = "reconnecting",
              !.retryCount = IF @ < maxRetries THEN @ + 1 ELSE @,
              !.delay = BackoffDelay(IF c.retryCount < maxRetries
                                       THEN c.retryCount + 1 ELSE c.retryCount)]

handleConnectionError(c) ==
    IF c.retryCount < maxRetries
      THEN [c EXCEPT !.status = "reconnecting", !.retryCount = @ + 1,
                     !.delay = BackoffDelay(c.retryCount + 1)]
      ELSE [c EXCEPT !.status = "disconnected"]

\* the keep-alive timer's callback, try branch: await client.ping() returned
PingSucceeded(c) ==
    [c EXCEPT !.lastPing = "ok", !.lastRequest = "ping",
              !.toolsAge = IF c.toolsListed /\ @ < MaxAge THEN @ + 1 ELSE @]

\* the catch branch: handleKeepAliveFailure(serverInfo). The failures are
\* counted; at keepAliveThreshold the connection is given to
\* handleConnectionError and its timer stopped
handleKeepAliveFailure(c) ==
    LET failed == [c EXCEPT !.lastPing = "fail", !.lastRequest = "ping",
                            !.pingFailures = @ + 1,
                            !.toolsAge = IF c.toolsListed /\ @ < MaxAge
                                           THEN @ + 1 ELSE @]
    IN  IF failed.pingFailures >= keepAliveThreshold
          THEN handleConnectionError([failed EXCEPT !.keepAlive = FALSE])
          ELSE failed

\* a tools/list or tools/call request goes out on the connection
Requested(c, method) ==
    [c EXCEPT !.lastRequest = method, !.early = @ \/ ~c.initialized]

\* the owner of the connection calls connect()
Connect ==
    /\ conn.status = "disconnected"
    /\ conn.retryCount = 0
    /\ conn' = Connecting(conn)
    /\ UNCHANGED hubVars

\* await this.transport.connect() returns or throws
TransportConnect(ok) ==
    /\ conn.status = "connecting"
    /\ conn' = IF ok THEN TransportReady(conn) ELSE handleConnectionError(conn)
    /\ UNCHANGED hubVars

\* await this.initialize() returns or throws
Initialize(ok) ==
    /\ conn.status = "initializing"
    /\ conn' = IF ok THEN Initialized(conn) ELSE handleConnectionError(conn)
    /\ UNCHANGED hubVars

\* await sleep(delay) is over: return this.connect()
Retry ==
    /\ conn.status = "reconnecting"
    /\ conn' = Connecting(conn)
    /\ UNCHANGED hubVars

\* the keep-alive interval elapses
KeepAlive(ok) ==
    /\ conn.status = "connected"
    /\ conn.keepAlive
    /\ conn' = IF ok THEN PingSucceeded(conn) ELSE handleKeepAliveFailure(conn)
    /\ UNCHANGED hubVars

\* ToolManager.discoverTools(server): server.request('tools/list')
DiscoverTools ==
    /\ conn.status = "connected"
    /\ conn' = [Requested(conn, "tools/list") EXCEPT !.toolsListed = TRUE,
                                                     !.toolsAge = 0]
    /\ UNCHANGED hubVars

\* executeTool: server.tools.find(...); server.request('tools/call', ...)
ExecuteTool ==
    /\ conn.status = "connected"
    /\ conn.toolsListed
    /\ conn' = Requested(conn, "tools/call")
    /\ UNCHANGED hubVars

\* ------------------------------------------------------------------------
\* import_configuration
\* ------------------------------------------------------------------------
ConfigBadA ==
    Put(EmptySettings, "A",
        ServerEntry("", "stdio", Undefined, TRUE, NoOwner, NoTools))

ConfigB ==
    Put(EmptySettings, "B",
        ServerEntry("", "sse", "http://b", TRUE, NoOwner, NoTools))

ImportInputs == {ConfigBadA, ConfigB}

\* "ok", or the Error thrown by the validation of args.config.mcpServers
ImportError(config) ==
    IF \E n \in DOMAIN config : config[n].type = "stdio" /\ config[n].command = ""
      THEN "requires a command for stdio type"
    ELSE IF \E n \in DOMAIN config :
               config[n].type \in {"sse", "streamable-http"} /\ config[n].url = Undefined
      THEN "requires a URL"
    ELSE "ok"

\* mcpServers: { ...currentSettings.mcpServers, ...args.config.mcpServers }
Merged(s, config) ==
    [n \in DOMAIN s \cup DOMAIN config |->
        IF n \in DOMAIN config THEN config[n] ELSE s[n]]

\* import_configuration: validation only `if (args.validate)`; then the merged
\* or the given configuration is saved
ImportConfiguration(config, validate, merge) ==
    /\ opsIssued < MaxOps
    /\ opsIssued' = opsIssued + 1
    /\ settings' =
          IF validate = "true" /\ ImportError(config) # "ok" THEN settings
          ELSE IF merge = "true" THEN Merged(settings, config)
          ELSE config
    /\ UNCHANGED <<handlers, runtimes, genCount, timers>>
    /\ UNCHANGED <<conn, extVars, catalogVars, groups, sessionVars>>

\* ------------------------------------------------------------------------
\* Vector index of the smart group (EmbeddingManager, VectorSearchService)
\* ------------------------------------------------------------------------
\* the default similarity threshold 0.7, in tenths
threshold == 7

Row(server, tool) == [server_name |-> server, tool_name |-> tool]

\* the upstreams syncEmbeddings visits: those with a connected client
getActiveServers(rts) == {r \in rts : r.state = "ready"}

\* syncEmbeddings: for every active server the rows are brought to the
\* server's listTools (added, removed, updated); the rows of a server that
\* is not visited are left as they are
syncEmbeddings(rows, rts) ==
    LET active == getActiveServers(rts)
        visited == {r.name : r \in active}
    IN  {row \in rows : row.server_name \notin visited}
        \cup UNION { { Row(r.name, t) : t \in r.tools } : r \in active }

\* similarity of a row's vector to the query's, in tenths: a query is close
\* to the tools it names and far from the others
Similarity(query, row) == IF row.tool_name = query THEN 9 ELSE 3

\* searchTools: generateEmbedding, performSearch, processResults; the rows of
\* vector_embeddings above the threshold are returned as they are
searchTools(query, rows) == {row \in rows : Similarity(query, row) > threshold}

SyncEmbeddings ==
    /\ embeddings' = syncEmbeddings(embeddings, runtimes)
    /\ UNCHANGED <<conn, lastSearch, idle, calls, db, chat, lateVars, storeVars, catalogVars, groups, sessionVars>>

SearchTools(query) ==
    /\ lastSearch' = searchTools(query, embeddings)
    /\ UNCHANGED <<conn, embeddings, idle, calls, db, chat, lateVars, storeVars, catalogVars, groups, sessionVars>>

\* ------------------------------------------------------------------------
\* SessionManager: idle timeout
\* ------------------------------------------------------------------------
\* SESSION_TIMEOUT, 30 minutes, in ticks of 10 minutes
SESSION_TIMEOUT == 3

MaxTime == 5

UserSessionIds == {"u1", "u2"}

NoUserSessions ==
    [now |-> 0, live |-> <<>>, due |-> {}, used |-> {}, cause |-> "none"]

\* destroySession(sessionId)
destroySession(m, sessionId, why) ==
    IF sessionId \in DOMAIN m.live
      THEN [m EXCEPT !.live = Delete(m.live, sessionId), !.cause = why]
      ELSE m

\* createSession: the session is stored and setTimeout(destroySession,
\* SESSION_TIMEOUT) is armed, once, from the time of creation
createSession(m, sessionId) ==
    [m EXCEPT !.live = Put(m.live, sessionId,
                           [createdAt |-> m.now, lastActivity |-> m.now]),
              !.due = m.due \cup {[id |-> sessionId, at |-> m.now + SESSION_TIMEOUT]},
              !.used = m.used \cup {sessionId}]

\* validateSession: an unknown session is refused; one idle for longer than
\* SESSION_TIMEOUT is destroyed; otherwise lastActivity is refreshed
validateSession(m, sessionId) ==
    IF sessionId \notin DOMAIN m.live
      THEN m
    ELSE IF m.now - m.live[sessionId].lastActivity > SESSION_TIMEOUT
      THEN destroySession(m, sessionId, "idle")
    ELSE [m EXCEPT !.live[sessionId].lastActivity = m.now]

idleFrame == <<conn, indexVars, calls, db, chat, lateVars, storeVars, catalogVars, groups, sessionVars>>

CreateUserSession(sessionId) ==
    /\ sessionId \notin idle.used
    /\ idle' = createSession(idle, sessionId)
    /\ UNCHANGED idleFrame

\* a request arrives on the session
ValidateUserSession(sessionId) ==
    /\ sessionId \in idle.used
    /\ idle' = validateSession(idle, sessionId)
    /\ UNCHANGED idleFrame

\* the timeout armed by createSession fires
SessionTimeout ==
    \E t \in idle.due :
        /\ idle.now >= t.at
        /\ idle' = [destroySession(idle, t.id, "timeout") EXCEPT !.due = idle.due \ {t}]
        /\ UNCHANGED idleFrame

\* the transport closes, or the client sends DELETE
EndUserSession(sessionId) ==
    /\ sessionId \in DOMAIN idle.live
    /\ idle' = destroySession(idle, sessionId, "close")
    /\ UNCHANGED idleFrame

\* ten minutes pass
Tick ==
    /\ idle.now < MaxTime
    /\ idle' = [idle EXCEPT !.now = idle.now + 1]
    /\ UNCHANGED idleFrame

\* ------------------------------------------------------------------------
\* db/connection.ts: the DataSource and its initialization
\* ------------------------------------------------------------------------
MaxPerforms == 3

DbCallers == {"c1", "c2"}

IdleCaller == [op |-> "none", pc |-> "idle", promise |-> 0, result |-> "none"]

\* appDataSource not initialized, initializationPromise = null (0), no
\* promise made
NoDatabase ==
    [isInitialized |-> FALSE, initializationPromise |-> 0, promises |-> <<>>,
     callers |-> [c \in DbCallers |-> IdleCaller]]

\* what a caller holds when its promise settles with the DataSource
Returned(d) == IF d.isInitialized THEN "initialized" ELSE "uninitialized"

\* initializationPromise = performDatabaseInitialization(): the DataSource
\* is not initialized, so initialize() is started and awaited
performDatabaseInitialization(d, c, op) ==
    LET p == Len(d.promises) + 1
    IN  [d EXCEPT !.initializationPromise = p,
                  !.promises = Append(d.promises, "pending"),
                  !.callers[c] = [op |-> op, pc |-> "awaiting", promise |-> p,
                                  result |-> "none"]]

CanPerform(d) == Len(d.promises) < MaxPerforms

\* initializeDatabase as called by caller c, directly or from
\* reconnectDatabase (op)
initializeDatabase(d, c, op) ==
    IF d.initializationPromise # 0
      THEN IF d.promises[d.initializationPromise] = "pending"
             THEN [d EXCEPT !.callers[c] =
                     [op |-> op, pc |-> "awaiting",
                      promise |-> d.initializationPromise, result |-> "none"]]
             ELSE [d EXCEPT !.callers[c] =
                     [op |-> op, pc |-> "idle", promise |-> 0,
                      result |-> IF d.promises[d.initializationPromise] = "rejected"
                                   THEN "rejected" ELSE Returned(d)]]
    ELSE IF d.isInitialized
      THEN [d EXCEPT !.callers[c] =
              [op |-> op, pc |-> "idle", promise |-> 0, result |-> "initialized"]]
    ELSE performDatabaseInitialization(d, c, op)

\* the callers of d resumed by the settling of promise p
Resumed(d, p, ok) ==
    [c \in DbCallers |->
        IF d.callers[c].pc = "awaiting" /\ d.callers[c].promise = p
          THEN [d.callers[c] EXCEPT
                  !.pc = "idle", !.promise = 0,
                  !.result = IF ok THEN "initialized" ELSE "rejected"]
          ELSE d.callers[c]]

Settled_KeepPromise(d, p, ok) ==
    [d EXCEPT !.isInitialized = IF ok THEN TRUE ELSE @,
              !.promises[p] = IF ok THEN "resolved" ELSE "rejected",
              !.callers = Resumed(d, p, ok)]

\* promise p settles: `const result = await initializationPromise; return
\* result`, or the catch branch: `initializationPromise = null; throw error`
Settled(d, p, ok) ==
    [d EXCEPT !.isInitialized = IF ok THEN TRUE ELSE @,
              !.initializationPromise = IF ok THEN @ ELSE 0,
              !.promises[p] = IF ok THEN "resolved" ELSE "rejected",
              !.callers = Resumed(d, p, ok)]

dbFrame == <<conn, indexVars, idle, calls, chat, lateVars, storeVars, catalogVars, groups, sessionVars>>

InitializeDatabase(c) ==
    /\ db.callers[c].pc = "idle"
    /\ CanPerform(db)
    /\ db' = initializeDatabase(db, c, "initializeDatabase")
    /\ UNCHANGED dbFrame

\* initialize() of a pending performDatabaseInitialization completes or
\* throws; its promise settles and every caller awaiting it resumes; on a
\* throw the catch of initializeDatabase sets initializationPromise = null
PerformSettles(p, ok) ==
    /\ p \in DOMAIN db.promises
    /\ db.promises[p] = "pending"
    /\ db' = Settled(db, p, ok)
    /\ UNCHANGED dbFrame

\* closeDatabase: destroy() when the DataSource is initialized
CloseDatabase ==
    /\ db.isInitialized
    /\ db' = [db EXCEPT !.isInitialized = FALSE]
    /\ UNCHANGED dbFrame

\* reconnectDatabase up to its first await: `await destroy()` when the
\* DataSource is initialized, else straight on to initializeDatabase()
ReconnectDatabase(c) ==
    /\ db.callers[c].pc = "idle"
    /\ CanPerform(db)
    /\ db' = IF db.isInitialized
               THEN [db EXCEPT !.isInitialized = FALSE,
                               !.callers[c] = [op |-> "reconnectDatabase",
                                               pc |-> "destroyed", promise |-> 0,
                                               result |-> "none"]]
               ELSE initializeDatabase([db EXCEPT !.initializationPromise = 0],
                                       c, "reconnectDatabase")
    /\ UNCHANGED dbFrame

\* reconnectDatabase after destroy(): initializationPromise = null;
\* appDataSource = updateDataSourceConfig(); return await initializeDatabase()
ReconnectResumes(c) ==
    /\ db.callers[c].pc = "destroyed"
    /\ CanPerform(db)
    /\ db' = initializeDatabase([db EXCEPT !.initializationPromise = 0],
                                c, "reconnectDatabase")
    /\ UNCHANGED dbFrame

\* ------------------------------------------------------------------------
\* Smart-group conversations (ConversationalGroupService)
\* ------------------------------------------------------------------------
MaxProposals == 4     \* the most proposals an analysis returns

\* the user messages: suggestions the service offers and answers to them
Messages ==
    { "I do a lot of web scraping and data analysis",
      "Analyze all my tools automatically",
      "Continue with my previous workflow preferences",
      "Create all groups",
      "Let me customize some groups first",
      "Create only the top 3 groups",
      "Create groups 1, 4 and 9",
      "Create the selected groups",
      "Show me more details about the proposals",
      "Start over",
      "Yes, create the original groups" }

\* userMessage.toLowerCase().includes(word), for the words the service
\* looks for
Words(userMessage) ==
    CASE userMessage = "Analyze all my tools automatically"
           -> {"analyze all", "automatic"}
      [] userMessage = "Continue with my previous workflow preferences"
           -> {"previous", "continue"}
      [] userMessage = "Create all groups" -> {"create all", "all groups"}
      [] userMessage = "Let me customize some groups first" -> {"customize"}
      [] userMessage = "Create only the top 3 groups" -> {"top"}
      [] userMessage = "Create the selected groups" -> {"selected"}
      [] userMessage = "Show me more details about the proposals" -> {"details"}
      [] userMessage = "Start over" -> {"start over"}
      [] OTHER -> {}

Includes(userMessage, words) == Words(userMessage) \cap words # {}

\* userMessage.match(/\d+/g), parsed: the numbers written in the message
Digits(userMessage) ==
    CASE userMessage = "Create only the top 3 groups" -> <<3>>
      [] userMessage = "Create groups 1, 4 and 9" -> <<1, 4, 9>>
      [] OTHER -> <<>>

\* what the services a message is processed with do: the memory service
\* (it answers with or without remembered preferences; its failures are
\* caught inside it), the JSON the chat completion returns for the
\* preferences (a "list", or valid JSON that is no list, an "object"), the
\* analysis (-1: it throws, else the number of proposals: none, fewer than
\* three, more than three) and createGroup ("all" or "none" succeed)
Outcomes ==
    [memory : {"empty", "remembers"}, preferences : {"list", "object"},
     analysis : {-1, 0, 2, MaxProposals}, createGroup : {"all", "none"}]

\* a list of proposals is the list of their ranks: 1 is the most confident
Ranks(n) == [i \in 1 .. n |-> i]

\* startConversation: the ConversationState stored, once the greeting is sent.
\* proposals: how many; selectedProposals: <<>> when undefined, else
\* <<the list>>.  The messages and createdGroups, which the service writes
\* and never reads, and the userPreferences, which only word its replies
\* and the analysis request, are left out
NewConversation(userId) ==
    [userId |-> userId, lastActivity |-> "recent",
     stage |-> "collecting_preferences", proposals |-> 0,
     selectedProposals |-> <<>>]

\* a ChatResponse returned with the conversation as the handler left it and
\* the proposals createGroup made a group for (the createdGroups);
\* nextStage Undefined when absent
Returns(c, message, nextStage) ==
    [message |-> message, nextStage |-> nextStage, conversation |-> c,
     thrown |-> FALSE, created |-> <<>>]

\* the handler throws, with the conversation as it left it
Throws(c) ==
    [message |-> "exception", nextStage |-> Undefined, conversation |-> c,
     thrown |-> TRUE, created |-> <<>>]

createSelectedGroups(c, e) ==
    LET selectedProposals ==
            IF c.selectedProposals # <<>> THEN c.selectedProposals[1]
            ELSE Ranks(c.proposals)
        createdGroups ==
            IF e.createGroup = "all" THEN selectedProposals ELSE <<>>
        done == [c EXCEPT !.stage = "completed"]
    IN  IF Len(selectedProposals) = 0
          THEN Returns(c, "No groups selected to create", "collecting_preferences")
        ELSE IF Len(createdGroups) = 0
          THEN Returns(done, "I wasn't able to create any groups", "error")
        ELSE [Returns(done, "Success", "completed")
                 EXCEPT !.created = createdGroups]

handleGroupSelection(c, userMessage, e) ==
    LET numbers == [i \in 1 .. Len(Digits(userMessage)) |->
                       Digits(userMessage)[i] - 1]
        InRange(n) == n >= 0 /\ n < c.proposals
        kept == SelectSeq(numbers, InRange)
        selectedProposals ==
            IF Len(numbers) = 0
              THEN Ranks(IF c.proposals < 3 THEN c.proposals ELSE 3)
              ELSE [i \in 1 .. Len(kept) |-> kept[i] + 1]
    IN  IF c.proposals = 0
          THEN Returns(c, "No proposals available to select from",
                       "collecting_preferences")
          ELSE createSelectedGroups(
                  [c EXCEPT !.selectedProposals = <<selectedProposals>>], e)

provideDetailedProposals(c) ==
    IF c.proposals = 0
      THEN Returns(c, "No proposals available", "collecting_preferences")
      ELSE Returns(c, "detailed breakdowns", Undefined)

performAnalysisAndGenerateProposals(c, e) ==
    IF e.analysis < 0
      THEN Returns([c EXCEPT !.stage = "analyzing"],
                   "I encountered an issue while analyzing", "error")
      ELSE LET analyzed == [c EXCEPT !.proposals = e.analysis,
                                     !.stage = "presenting_proposals"]
           IN  IF e.analysis = 0
                 THEN Returns(analyzed, "I couldn't find clear patterns", "error")
                 ELSE Returns(analyzed, "proposals", "presenting_proposals")

\* `conversation.userPreferences.push(...preferences)` throws a TypeError
\* when the JSON parsed by extractPreferencesFromMessage is not iterable
handlePreferenceCollection(c, userMessage, e) ==
    IF e.preferences # "list"
      THEN Throws(c)
    ELSE IF /\ c.userId # Undefined
            /\ Includes(userMessage, {"previous", "before", "continue"})
            /\ e.memory = "remembers"
      THEN performAnalysisAndGenerateProposals(c, e)
    ELSE IF Includes(userMessage, {"analyze all", "automatic"})
      THEN performAnalysisAndGenerateProposals(c, e)
    ELSE Returns(c, "Would you like to analyze now, or tell me more",
                 "collecting_preferences")

handleProposalDiscussion(c, userMessage, e) ==
    IF Includes(userMessage, {"create all", "all groups"})
      THEN createSelectedGroups(
              [c EXCEPT !.selectedProposals = <<Ranks(c.proposals)>>], e)
    ELSE IF Includes(userMessage, {"customize", "modify"})
      THEN Returns([c EXCEPT !.stage = "refining"],
                   "Which groups would you like to modify", "refining")
    ELSE IF \/ Includes(userMessage, {"top", "selected"})
            \/ Len(Digits(userMessage)) > 0
      THEN handleGroupSelection(c, userMessage, e)
    ELSE IF Includes(userMessage, {"details", "more info"})
      THEN provideDetailedProposals(c)
    ELSE IF Includes(userMessage, {"start over", "different"})
      THEN Returns([c EXCEPT !.stage = "collecting_preferences",
                             !.proposals = 0],
                   "Let's start fresh", "collecting_preferences")
    ELSE Returns(c, "I'm not sure what you'd like to do", Undefined)

handleRefinement(c) ==
    Returns(c, "Group customization is being processed", Undefined)

handleGeneralChat(c) ==
    Returns(c, "Would you like to start by telling me about your workflow",
            "collecting_preferences")

\* `if (response.nextStage) conversation.stage = response.nextStage`
Staged(r) ==
    IF r.nextStage # Undefined
      THEN [r EXCEPT !.conversation.stage = r.nextStage]
      ELSE r

\* processMessage, once the conversation is found: the handler of its stage; when
\* the handler throws, stage 'error' and a reply with nextStage
\* 'collecting_preferences'
Processed(c, userMessage, e) ==
    LET conversation == [c EXCEPT !.lastActivity = "recent"]
        response ==
            CASE c.stage = "collecting_preferences"
                   -> handlePreferenceCollection(conversation, userMessage, e)
              [] c.stage = "presenting_proposals"
                   -> handleProposalDiscussion(conversation, userMessage, e)
              [] c.stage = "refining" -> handleRefinement(conversation)
              [] c.stage = "creating" -> createSelectedGroups(conversation, e)
              [] OTHER -> handleGeneralChat(conversation)
    IN  IF response.thrown
          THEN Returns([response.conversation EXCEPT !.stage = "error"],
                       "I encountered an error while processing your request",
                       "collecting_preferences")
          ELSE Staged(response)

\* a service as constructed: `conversations = new Map()`
NoConversations == [id \in {} |-> NewConversation(Undefined)]

\* ConversationalGroupService.processMessage(conversationId, userMessage) on
\* a service's map: the map afterwards, the error thrown (Undefined when it
\* returns), the ChatResponse and the proposals groups were created for
processMessage_Create(conversations, conversationId, userMessage, e) ==
    LET c == IF conversationId \in DOMAIN conversations
               THEN conversations[conversationId]
               ELSE NewConversation(Undefined)
        r == Processed(c, userMessage, e)
    IN  [message |-> r.message, nextStage |-> r.nextStage, created |-> r.created,
         conversations |-> Put(conversations, conversationId, r.conversation),
         error |-> Undefined]

processMessage(conversations, conversationId, userMessage, e) ==
    IF conversationId \notin DOMAIN conversations
      THEN [message |-> Undefined, nextStage |-> Undefined, created |-> <<>>,
            conversations |-> conversations, error |-> "Conversation not found"]
      ELSE LET r == Processed(conversations[conversationId], userMessage, e)
           IN  [message |-> r.message, nextStage |-> r.nextStage,
                created |-> r.created,
                conversations |-> Put(conversations, conversationId,
                                      r.conversation),
                error |-> Undefined]

\* the conversation ids of the requests: the id of the conversation the
\* shared service starts, and an id it never makes
ConversationIds == {"c1", "c0"}

\* no conversation started, no request answered
NoChat ==
    [conversations |-> NoConversations, started |-> {}, returned |-> {},
     reply |-> [nextStage |-> Undefined, created |-> <<>>,
                conversationId |-> Undefined, error |-> Undefined,
                endpoint |-> "none", code |-> 0]]

\* ------------------------------------------------------------------------
\* Group proposals (SmartGroupingService.analyzeAndProposeGroups)
\* ------------------------------------------------------------------------
MaxProposed == 3      \* the most proposals the generators make

\* the tool sets the templates, the clustering and the servers propose (the
\* tools are numbered) and the confidences, in tenths
ToolSets == { {1, 2, 3}, {2, 3, 4}, {1, 2, 3, 4}, {5}, {} }
Confidences == {5, 6, 9}

GroupProposal(tools, confidence) == [tools |-> tools, confidence |-> confidence]

\* overlapRatio = intersection.size / union.size; overlapRatio > 0.7
Overlapping(proposal, existing) ==
    10 * Cardinality(proposal.tools \cap existing.tools)
       > 7 * Cardinality(proposal.tools \cup existing.tools)

\* the loop of deduplicateProposals over the proposals left
RECURSIVE Deduplicated(_, _)
Deduplicated(deduplicated, proposals) ==
    IF proposals = <<>> THEN deduplicated
    ELSE LET proposal == Head(proposals)
             duplicates == { i \in DOMAIN deduplicated :
                                Overlapping(proposal, deduplicated[i]) }
             existingIndex == CHOOSE i \in duplicates :
                                 \A j \in duplicates : i <= j
         IN  IF duplicates = {}
               THEN Deduplicated(Append(deduplicated, proposal), Tail(proposals))
             ELSE IF proposal.confidence > deduplicated[existingIndex].confidence
               THEN Deduplicated([deduplicated EXCEPT ![existingIndex] = proposal],
                                 Tail(proposals))
             ELSE Deduplicated(deduplicated, Tail(proposals))

deduplicateProposals(proposals) == Deduplicated(<<>>, proposals)

\* .sort((a, b) => b.confidence - a.confidence): by falling confidence, equal
\* confidences in the order they had
RECURSIVE Sorted(_, _)
Sorted(proposals, confidences) ==
    IF confidences = {} THEN <<>>
    ELSE LET top == CHOOSE c \in confidences : \A d \in confidences : d <= c
             IsTop(proposal) == proposal.confidence = top
         IN  SelectSeq(proposals, IsTop) \o Sorted(proposals, confidences \ {top})

\* analyzeAndProposeGroups, from the proposals of the generators on, with
\* no user preferences
analyzeAndProposeGroups(allProposals) ==
    LET NotEmpty(proposal) == proposal.tools # {}
    IN  Sorted(SelectSeq(deduplicateProposals(allProposals), NotEmpty),
               Confidences)

\* nothing proposed, nothing returned
NoAnalysis == [returned |-> <<>>, allProposals |-> <<>>]

\* ------------------------------------------------------------------------
\* export_configuration
\* ------------------------------------------------------------------------
\* the names of the environment variables of a server
EnvKeys == {"OPENAI_API_KEY", "DB_PASSWORD", "CLIENT_SECRET", "GITHUB_TOKEN", "PATH"}

\* key.toLowerCase().includes(word), for the words export_configuration
\* looks for and for 'token'
KeyWords(key) ==
    CASE key = "OPENAI_API_KEY" -> {"key"}
      [] key = "DB_PASSWORD" -> {"password"}
      [] key = "CLIENT_SECRET" -> {"secret"}
      [] key = "GITHUB_TOKEN" -> {"token"}
      [] OTHER -> {}

\* the value stored under a name
ValueOf(key) == "value of " \o key

Redacted == "***REDACTED***"

\* settings with no smartRouting.openaiApiKey and no env
NoSecrets == [openaiApiKey |-> Undefined, env |-> [key \in {} |-> ""]]

\* export_configuration: the settings, or a copy with
\* smartRouting.openaiApiKey and the env values whose name includes 'key',
\* 'secret' or 'password' replaced
exportConfiguration(stored, includeSecrets) ==
    IF includeSecrets = "true" THEN stored
    ELSE [openaiApiKey |->
             IF stored.openaiApiKey # Undefined THEN Redacted ELSE Undefined,
          env |-> [key \in DOMAIN stored.env |->
                      IF KeyWords(key) \cap {"key", "secret", "password"} # {}
                        THEN Redacted
                        ELSE stored.env[key]]]

\* no secret stored, nothing exported
NoVault ==
    [stored |-> NoSecrets, includeSecrets |-> "none", exported |-> NoSecrets]

\* ------------------------------------------------------------------------
\* The standalone hub-management server (servers/hub-management)
\* ------------------------------------------------------------------------
\* the tools both servers offer, of those modelled here
ManagementTools == {"add_server", "delete_server", "toggle_server"}

\* the standalone handlers: "ok", or the message of the Error thrown.
\* openapi: the url of args.openapi, Undefined when there is none
ToolHandlerError(name, a, openapi, s) ==
    CASE name = "add_server" ->
           IF a.name \in DOMAIN s THEN "already exists"
           ELSE IF NewServerConfig(a).type = "stdio" /\ NewServerConfig(a).command = ""
             THEN "Command is required for stdio servers"
           ELSE IF NewServerConfig(a).type \in {"sse", "streamable-http"}
                   /\ NewServerConfig(a).url = Undefined
             THEN "URL is required for SSE/HTTP servers"
           ELSE IF NewServerConfig(a).type = "openapi" /\ openapi = Undefined
             THEN "OpenAPI URL is required for OpenAPI servers"
           ELSE "ok"
      [] name \in {"delete_server", "toggle_server"} ->
           IF a.name \notin DOMAIN s THEN "not found" ELSE "ok"
      [] OTHER -> "ok"

\* the standalone server's CallToolRequestSchema handler: McpError for a
\* tool that is not in toolMap and for an Error thrown by the handler
StandaloneCallTool(name, a, openapi, s) ==
    IF name \notin ManagementTools
      THEN [jsonrpc |-> "error", text |-> "Tool not found"]
    ELSE IF ToolHandlerError(name, a, openapi, s) = "ok"
      THEN [jsonrpc |-> "result", text |-> "ok"]
    ELSE [jsonrpc |-> "error",
          text |-> "Error executing tool: "
                      \o ToolHandlerError(name, a, openapi, s)]

\* HubManagementVirtualServer.callTool: executeTool's `default: throw new
\* Error('Unknown tool')`, and every Error returned as text
VirtualCallTool(name, a, s) ==
    HubCallTool(IF name \notin ManagementTools THEN "Unknown tool"
                ELSE HandlerError(name, a, s))

\* the calls made to both servers: the tool, its arguments and the url of
\* args.openapi
TwinCalls ==
    { <<"add_server", a, Undefined>> : a \in AddServerInputs }
    \cup { <<"add_server",
             Args(n, Undefined, "openapi", Undefined, Undefined, "ping",
                  Undefined, <<>>), o>> :
             n \in Servers, o \in {Undefined, "http://b/openapi.json"} }
    \cup { <<"delete_server", a, Undefined>> : a \in NameInputs }
    \cup { <<"toggle_server", a, Undefined>> : a \in ToggleServerInputs }
    \cup { <<"no_such_tool", NoArgs, Undefined>> }

\* both servers on empty settings, no call made
NoTwin ==
    [virtual |-> EmptySettings, standalone |-> EmptySettings,
     virtualAnswer |-> [jsonrpc |-> "none", text |-> "none"],
     standaloneAnswer |-> [jsonrpc |-> "none", text |-> "none"]]

\* ------------------------------------------------------------------------
\* AppServer.initialize
\* ------------------------------------------------------------------------
\* the upstream servers initUpstreamServers initializes
Upstreams == {"A", "B"}

\* the paths a client asks for: the MCP session endpoints, with and without
\* a user, an API route and the root
SessionPaths == {"/sse", "/messages", "/mcp", "/alice/sse", "/alice/messages",
                 "/alice/mcp"}
Paths == SessionPaths \cup {"/api/servers", "/"}

\* the paths the handlers registered by initRoutes ("api"), by the
\* callback of initUpstreamServers ("mcp") and by findAndServeFrontend
\* ("frontend") answer
Serves(handler) ==
    CASE handler = "api" -> {"/api/servers"}
      [] handler = "mcp" -> SessionPaths
      [] handler = "frontend" -> {"/"}
      [] OTHER -> {}

\* express: the first handler registered for the path answers, else 404
Routed(routes, path) ==
    LET matching == { i \in DOMAIN routes : path \in Serves(routes[i]) }
    IN  IF matching = {} THEN "404"
        ELSE routes[CHOOSE i \in matching : \A j \in matching : i <= j]

\* `new AppServer()`: nothing registered, initUpstreamServers not called
NoApp ==
    [pc |-> "constructed", promise |-> "none", routes |-> <<>>,
     path |-> "none", virtualServers |-> {},
     upstreams |-> [n \in Upstreams |-> "idle"], listening |-> FALSE,
     answeredBy |-> "none"]

\* initI18n, initializeDefaultUser, initMiddlewares, initRoutes
Prepared(a) == [a EXCEPT !.pc = "prepared", !.routes = Append(@, "api")]

\* await registerVirtualServer(new HubManagementVirtualServer())
Registered(a) ==
    [a EXCEPT !.pc = "registered", !.virtualServers = @ \cup {"hub-management"}]

\* initUpstreamServers() is called and initialize() returns; the callbacks
\* wait for its promise
Called_WithRoutes(a) ==
    [a EXCEPT !.pc = "returned", !.promise = "pending",
              !.routes = Append(@, "mcp")]

Called(a) == [a EXCEPT !.pc = "returned", !.promise = "pending"]

\* .then(() => { this.app.get(`${basePath}/sse/:group?`, ...) ... })
Then(a) == [a EXCEPT !.promise = "resolved", !.routes = Append(@, "mcp")]

\* .finally(() => this.findAndServeFrontend())
Finally(a) == [a EXCEPT !.routes = Append(@, "frontend")]

\* ------------------------------------------------------------------------
\* Specifications
\* ------------------------------------------------------------------------
RestInit ==
    /\ catalog = {}
    /\ catalogVersion = 0
    /\ sessions = NoSessions
    /\ lastCall = NoCall
    /\ embeddings = {}
    /\ lastSearch = {}
    /\ idle = NoUserSessions
    /\ calls = NoCalls
    /\ db = NoDatabase
    /\ chat = NoChat
    /\ proposed = NoAnalysis
    /\ vault = NoVault
    /\ twin = NoTwin
    /\ app = NoApp

\* the management handlers, running concurrently, and the upstream runtimes
Init == StoreInit /\ RestInit /\ groups = NoGroups /\ conn = Unconnected

Next == StoreNext

Spec == Init /\ [][Next]_vars

\* the catalog and the sessions under management calls
GroupG == Put(NoGroups, "g1",
              NewGroup(NoOwner, Entries({"A"}, GroupServer(TRUE, {"ping"}, {}))))

CatalogCalls ==
    { <<"toggle_tool", a>> :
        a \in { i \in ToggleToolInputs : i.name = "A" /\ (i.toolName = "ping" \/ i.enabled = "false") } }
    \cup { <<"update_tool_metadata", a>> :
              a \in { i \in ToolMetadataInputs : i.description = "Forecast service" } }
    \cup { <<"toggle_server", a>> : a \in ToggleServerInputs }

CatalogScopes == {Global, Scope("group", "g1")}

CatalogInit ==
    StoreInit /\ settings = SettingsA /\ RestInit /\ groups = GroupG /\ conn = Unconnected

CatalogNext ==
    \/ \E c \in CatalogCalls : Call("h1", c[1], c[2])
    \/ AfterLoad("h1")
    \/ AfterSave("h1")
    \/ \E n \in Servers : UpstreamReady(n)
    \/ CatalogRefresh
    \/ HotReload
    \/ \E sc \in CatalogScopes : OpenSession("s1", sc, Admin)
    \/ ListTools("s1")
    \/ SessionNotify("s1")

CatalogSpec == CatalogInit /\ [][CatalogNext]_vars

\* groups, ownership and routing
AccessScopes == {Global, Scope("upstream", "B"), Scope("group", "g1")}

AddServerInputs2 ==
    { <<"A", GroupServer(TRUE, {}, {})>>, <<"B", GroupServer(TRUE, {"ping"}, {})>> }

AccessInit ==
    StoreInit /\ settings = SettingsAB /\ RestInit /\ groups = NoGroups /\ conn = Unconnected

AccessNext ==
    \/ \E n \in Servers : UpstreamReady(n)
    \/ CatalogRefresh
    \/ \E sv \in GroupServersInputs : CreateGroup(sv)
    \/ \E u \in {Undefined, "alice"} :
          CreateSelectedGroups(u, [tools |-> {<<"A", "ping">>}, servers |-> {"A"}])
    \/ CreateNewGroup(Bob, Entries({"A", "B"}, GroupServer(FALSE, {}, {})))
    \/ \E e \in AddServerInputs2 : AddServerToGroup("g1", e[1], e[2])
    \/ \E sc \in AccessScopes, u \in {Alice, Bob} : OpenSession("s1", sc, u)
    \/ ListTools("s1")
    \/ \E name \in CallNames : CallTool("s1", name)
    \/ CloseSession("s1")

AccessSpec == AccessInit /\ [][AccessNext]_vars

\* sessions on the smart group
SmartNext ==
    \/ \E n \in Servers : UpstreamReady(n)
    \/ CatalogRefresh
    \/ \E u \in {Alice, Bob} : OpenSession("s1", Smart, u)
    \/ ListTools("s1")
    \/ \E server \in Servers \cup {"ghost"}, tool \in ToolNames :
          SmartCallTool("s1", server, tool)
    \/ CloseSession("s1")

SmartSpec == AccessInit /\ [][SmartNext]_vars

\* one upstream connection over its whole life
ConnInit ==
    /\ StoreInit /\ settings = SettingsA /\ RestInit /\ groups = NoGroups
    /\ \E t \in Transports : conn = NewConnection(t)

ConnNext ==
    \/ Connect
    \/ \E ok \in BOOLEAN : TransportConnect(ok)
    \/ \E ok \in BOOLEAN : Initialize(ok)
    \/ Retry
    \/ \E ok \in BOOLEAN : KeepAlive(ok)
    \/ DiscoverTools
    \/ ExecuteTool

ConnSpec == ConnInit /\ [][ConnNext]_vars

\* the vector index under removal and disabling of an upstream
SearchCalls ==
    { <<"delete_server", a>> : a \in {i \in NameInputs : i.name = "A"} }
    \cup { <<"toggle_server", a>> : a \in ToggleServerInputs }

SearchNext ==
    \/ \E c \in SearchCalls : Call("h1", c[1], c[2])
    \/ AfterLoad("h1")
    \/ AfterSave("h1")
    \/ \E n \in Servers : UpstreamReady(n)
    \/ CatalogRefresh
    \/ SyncEmbeddings
    \/ \E query \in ToolNames : SearchTools(query)

SearchSpec == CatalogInit /\ [][SearchNext]_vars

\* session creation on scopes that resolve to no upstream
ScopeScopes ==
    {Global, Scope("upstream", "B"), Scope("group", "g1"), Scope("group", "g2")}

ScopeInit ==
    StoreInit /\ settings = SettingsAB /\ RestInit /\ groups = GroupG /\ conn = Unconnected

ScopeNext ==
    \/ \E a \in {i \in NameInputs : i.name = "A"} : Call("h1", "delete_server", a)
    \/ AfterLoad("h1")
    \/ AfterSave("h1")
    \/ \E n \in Servers : UpstreamReady(n)
    \/ CatalogRefresh
    \/ \E sc \in ScopeScopes, u \in {Alice, Bob} : CreateSession("s1", sc, u)
    \/ ListTools("s1")
    \/ \E name \in CallNames : CallTool("s1", name)
    \/ CloseSession("s1")

ScopeSpec == ScopeInit /\ [][ScopeNext]_vars

\* the SessionManager over time
IdleNext ==
    \/ \E sessionId \in UserSessionIds : CreateUserSession(sessionId)
    \/ \E sessionId \in UserSessionIds : ValidateUserSession(sessionId)
    \/ SessionTimeout
    \/ \E sessionId \in UserSessionIds : EndUserSession(sessionId)
    \/ Tick

IdleSpec == CatalogInit /\ [][IdleNext]_vars

\* tools/call requests in flight
RequestNext ==
    \/ \E n \in Servers : UpstreamReady(n)
    \/ CatalogRefresh
    \/ HotReload
    \/ OpenSession("s1", Global, Admin)
    \/ CloseSession("s1")
    \/ \E id \in 1..MaxCalls, name \in CallNames : BeginCall(id, "s1", name)
    \/ \E id \in 1..MaxCalls, ok \in BOOLEAN : UpstreamAnswers(id, ok)

RequestSpec == CatalogInit /\ [][RequestNext]_vars

\* the database connection under concurrent callers
DbNext ==
    \/ \E c \in DbCallers : InitializeDatabase(c)
    \/ \E p \in 1..MaxPerforms, ok \in BOOLEAN : PerformSettles(p, ok)
    \/ CloseDatabase
    \/ \E c \in DbCallers : ReconnectDatabase(c)
    \/ \E c \in DbCallers : ReconnectResumes(c)

DbSpec == CatalogInit /\ [][DbNext]_vars

\* ------------------------------------------------------------------------
\* The smart-group endpoints and MCP tools
\* ------------------------------------------------------------------------
chatFrame == <<conn, indexVars, idle, calls, db, lateVars, storeVars, catalogVars, sessionVars>>

\* the answer to a request; created: the groups a message made
Replied(endpoint, conversationId, code, error, r) ==
    [nextStage |-> r.nextStage, created |-> r.created,
     conversationId |-> conversationId, error |-> error,
     endpoint |-> endpoint, code |-> code]

NoResponse == [nextStage |-> Undefined, created |-> <<>>]

\* POST /smart-groups/conversations: startConversation(userId) on the shared
\* service, under an id no conversation had before
StartConversation(conversationId, userId) ==
    /\ conversationId \notin chat.started
    /\ chat' = [chat EXCEPT
          !.conversations = Put(@, conversationId, NewConversation(userId)),
          !.started = @ \cup {conversationId},
          !.reply = Replied("startConversation", conversationId, 200,
                            Undefined, NoResponse)]
    /\ UNCHANGED <<chatFrame, groups>>

\* sendMessage: processMessage on the shared service; 'Conversation not
\* found' is answered 404.  The groups createGroup made are in the reply;
\* what createGroup does to the group store is CreateSelectedGroups
SendMessage(conversationId, userMessage, e) ==
    LET r == processMessage(chat.conversations, conversationId, userMessage, e)
    IN  /\ chat' = [chat EXCEPT
              !.conversations = r.conversations,
              !.reply = Replied("sendMessage", conversationId,
                                IF r.error = Undefined THEN 200
                                ELSE IF r.error = "Conversation not found" THEN 404
                                ELSE 500,
                                r.error, r)]
        /\ UNCHANGED <<chatFrame, groups>>

\* deleteConversation: 404 when the service had no such conversation
DeleteConversation(conversationId) ==
    /\ chat' = [chat EXCEPT
          !.conversations =
              IF conversationId \in DOMAIN @ THEN Delete(@, conversationId) ELSE @,
          !.reply =
              IF conversationId \in DOMAIN chat.conversations
                THEN Replied("deleteConversation", conversationId, 200,
                             Undefined, NoResponse)
                ELSE Replied("deleteConversation", conversationId, 404,
                             "Conversation not found", NoResponse)]
    /\ UNCHANGED <<chatFrame, groups>>

\* 24 hours pass without a request
DayPasses ==
    /\ \E id \in DOMAIN chat.conversations :
          chat.conversations[id].lastActivity = "recent"
    /\ chat' = [chat EXCEPT
          !.conversations =
              [id \in DOMAIN @ |-> [@[id] EXCEPT !.lastActivity = "old"]],
          !.reply = NoChat.reply]
    /\ UNCHANGED <<chatFrame, groups>>

\* cleanupConversations: cleanupOldConversations()
cleanupOldConversations(conversations) ==
    [id \in {i \in DOMAIN conversations :
                conversations[i].lastActivity # "old"} |-> conversations[id]]

CleanupConversations ==
    /\ chat' = [chat EXCEPT
          !.conversations = cleanupOldConversations(@),
          !.reply = Replied("cleanupConversations", Undefined, 200, Undefined, NoResponse)]
    /\ UNCHANGED <<chatFrame, groups>>

\* the conversation ids start_smart_group_conversation returns
ToolConversationIds == {"t1"}

\* the MCP tool start_smart_group_conversation: `new
\* ConversationalGroupService()`, startConversation on it, and the
\* conversationId is returned
StartSmartGroupConversation(conversationId) ==
    /\ conversationId \notin chat.returned
    /\ conversationId \in
          DOMAIN Put(NoConversations, conversationId, NewConversation("mcp-user"))
    /\ chat' = [chat EXCEPT
          !.returned = @ \cup {conversationId},
          !.reply = Replied("start_smart_group_conversation", conversationId,
                            200, Undefined, NoResponse)]
    /\ UNCHANGED <<chatFrame, groups>>

\* the MCP tool send_smart_group_message: `new ConversationalGroupService()`
\* and processMessage(args.conversationId, args.message) on it; an error is
\* returned as { success: false, error }
SendSmartGroupMessage(conversationId, userMessage, e) ==
    LET r == processMessage(NoConversations, conversationId, userMessage, e)
    IN  /\ chat' = [chat EXCEPT
              !.reply = Replied("send_smart_group_message", conversationId,
                                IF r.error = Undefined THEN 200 ELSE 500,
                                r.error, r)]
        /\ UNCHANGED <<chatFrame, groups>>

ChatNext ==
    \/ \E userId \in {Undefined, "alice"} : StartConversation("c1", userId)
    \/ \E conversationId \in ConversationIds, userMessage \in Messages,
          e \in Outcomes :
          SendMessage(conversationId, userMessage, e)
    \/ \E conversationId \in ConversationIds :
          DeleteConversation(conversationId)
    \/ DayPasses
    \/ CleanupConversations
    \/ \E conversationId \in ToolConversationIds :
          StartSmartGroupConversation(conversationId)
    \/ \E conversationId \in ConversationIds \cup ToolConversationIds,
          e \in Outcomes :
          SendSmartGroupMessage(conversationId,
                                "Analyze all my tools automatically", e)

\* the smart-group conversations alone: the REST endpoints and the MCP tools
ChatSpec == CatalogInit /\ [][ChatNext]_vars

\* ------------------------------------------------------------------------
\* An analysis: the generators propose, analyzeAndProposeGroups returns
\* ------------------------------------------------------------------------
proposedFrame == <<conn, indexVars, idle, calls, db, chat, vault, twin, app,
                   storeVars, catalogVars, groups, sessionVars>>

\* createTemplateBasedGroups, createVectorBasedGroups and
\* createServerBasedGroups: `allProposals.push(...)`
Propose(tools, confidence) ==
    /\ Len(proposed.allProposals) < MaxProposed
    /\ proposed.returned = <<>>
    /\ proposed' = [proposed EXCEPT
          !.allProposals = Append(@, GroupProposal(tools, confidence))]
    /\ UNCHANGED proposedFrame

AnalyzeAndProposeGroups ==
    /\ proposed.allProposals # <<>>
    /\ proposed.returned = <<>>
    /\ proposed' = [proposed EXCEPT
          !.returned = analyzeAndProposeGroups(proposed.allProposals)]
    /\ UNCHANGED proposedFrame

ProposalNext ==
    \/ \E tools \in ToolSets, confidence \in Confidences :
          Propose(tools, confidence)
    \/ AnalyzeAndProposeGroups

ProposalSpec == CatalogInit /\ [][ProposalNext]_vars

\* ------------------------------------------------------------------------
\* The stored settings and their export
\* ------------------------------------------------------------------------
vaultFrame == <<conn, indexVars, idle, calls, db, chat, proposed, twin, app,
                storeVars, catalogVars, groups, sessionVars>>

\* a server is stored with a variable in its env (add_server: env: args.env)
StoreEnv(key) ==
    /\ key \notin DOMAIN vault.stored.env
    /\ vault' = [NoVault EXCEPT
          !.stored = [vault.stored EXCEPT !.env = Put(@, key, ValueOf(key))]]
    /\ UNCHANGED vaultFrame

\* smartRouting.openaiApiKey is stored
StoreApiKey ==
    /\ vault.stored.openaiApiKey = Undefined
    /\ vault' = [NoVault EXCEPT
          !.stored = [vault.stored EXCEPT
                         !.openaiApiKey = ValueOf("openaiApiKey")]]
    /\ UNCHANGED vaultFrame

\* export_configuration { includeSecrets }
ExportConfiguration(includeSecrets) ==
    /\ vault' = [vault EXCEPT
          !.includeSecrets = IF includeSecrets = "true" THEN "true" ELSE "false",
          !.exported = exportConfiguration(vault.stored, includeSecrets)]
    /\ UNCHANGED vaultFrame

ExportNext ==
    \/ \E key \in EnvKeys : StoreEnv(key)
    \/ StoreApiKey
    \/ \E includeSecrets \in {Undefined, "false", "true"} :
          ExportConfiguration(includeSecrets)

ExportSpec == CatalogInit /\ [][ExportNext]_vars

\* ------------------------------------------------------------------------
\* The start of the application server
\* ------------------------------------------------------------------------
appFrame == <<conn, indexVars, idle, calls, db, chat, proposed, vault, twin,
              storeVars, catalogVars, groups, sessionVars>>

\* initialize() up to initRoutes; an exception is rethrown
Prepare(ok) ==
    /\ app.pc = "constructed"
    /\ app' = IF ok THEN Prepared(app) ELSE [app EXCEPT !.pc = "failed"]
    /\ UNCHANGED appFrame

RegisterVirtualServer(ok) ==
    /\ app.pc = "prepared"
    /\ app' = IF ok THEN Registered(app) ELSE [app EXCEPT !.pc = "failed"]
    /\ UNCHANGED appFrame

InitUpstreamServers ==
    /\ app.pc = "registered"
    /\ app' = Called(app)
    /\ UNCHANGED appFrame

\* start(): this.app.listen(this.port), after initialize() returned
Start ==
    /\ app.pc = "returned"
    /\ ~app.listening
    /\ app' = [app EXCEPT !.listening = TRUE]
    /\ UNCHANGED appFrame

\* initUpstreamServers initializes an upstream, or fails to
UpstreamInitialized(n, ok) ==
    /\ app.promise = "pending"
    /\ app.upstreams[n] = "idle"
    /\ app' = [app EXCEPT
          !.upstreams[n] = IF ok THEN "connected" ELSE "failed"]
    /\ UNCHANGED appFrame

\* the promise of initUpstreamServers resolves and the .then callback runs
UpstreamsResolve ==
    /\ app.promise = "pending"
    /\ \A n \in Upstreams : app.upstreams[n] # "idle"
    /\ app' = Then(app)
    /\ UNCHANGED appFrame

\* the promise is rejected; the .catch callback rethrows
UpstreamsReject ==
    /\ app.promise = "pending"
    /\ app' = [app EXCEPT !.promise = "rejected"]
    /\ UNCHANGED appFrame

\* the .finally callback, after .then or .catch
ServeFrontend ==
    /\ app.promise \in {"resolved", "rejected"}
    /\ \A i \in DOMAIN app.routes : app.routes[i] # "frontend"
    /\ app' = Finally(app)
    /\ UNCHANGED appFrame

\* a request arrives at the listening server
Request(path) ==
    /\ app.listening
    /\ app' = [app EXCEPT !.path = path,
                          !.answeredBy = Routed(app.routes, path)]
    /\ UNCHANGED appFrame

AppNext ==
    \/ \E ok \in BOOLEAN : Prepare(ok)
    \/ \E ok \in BOOLEAN : RegisterVirtualServer(ok)
    \/ InitUpstreamServers
    \/ Start
    \/ \E n \in Upstreams, ok \in BOOLEAN : UpstreamInitialized(n, ok)
    \/ UpstreamsResolve
    \/ UpstreamsReject
    \/ ServeFrontend
    \/ \E path \in Paths : Request(path)

AppSpec == CatalogInit /\ [][AppNext]_vars

\* ------------------------------------------------------------------------
\* The same call made to the virtual and to the standalone server
\* ------------------------------------------------------------------------
twinFrame == <<conn, indexVars, idle, calls, db, chat, proposed, vault, app,
               storeVars, catalogVars, groups, sessionVars>>

CallBoth(name, a, openapi) ==
    /\ twin' =
          [virtual |->
              IF name \in ManagementTools /\ HandlerError(name, a, twin.virtual) = "ok"
                THEN HandlerResult(name, a, twin.virtual)
                ELSE twin.virtual,
           standalone |->
              IF /\ name \in ManagementTools
                 /\ ToolHandlerError(name, a, openapi, twin.standalone) = "ok"
                THEN HandlerResult(name, a, twin.standalone)
                ELSE twin.standalone,
           virtualAnswer |-> VirtualCallTool(name, a, twin.virtual),
           standaloneAnswer |-> StandaloneCallTool(name, a, openapi, twin.standalone)]
    /\ UNCHANGED twinFrame

TwinNext == \E c \in TwinCalls : CallBoth(c[1], c[2], c[3])

TwinSpec == CatalogInit /\ [][TwinNext]_vars


\* the mutations of the upstream definitions
UpdateServerInputs2 ==
    { Args("A", "", Undefined, Undefined, Undefined, "ping", Undefined, <<>>),
      Args("A", Undefined, "sse", Undefined, Undefined, "ping", Undefined, <<>>),
      Args("A", "cmd2", Undefined, Undefined, Undefined, "ping", Undefined, <<>>) }

DefinitionCalls ==
    { <<"add_server", a>> : a \in AddServerInputs }
    \cup { <<"update_server", a>> : a \in UpdateServerInputs2 }

DefinitionNext ==
    \/ \E c \in DefinitionCalls : Call("h1", c[1], c[2])
    \/ AfterLoad("h1")
    \/ AfterSave("h1")
    \/ \E config \in ImportInputs, validate \in {Undefined, "true"},
          merge \in {Undefined, "true"} :
            ImportConfiguration(config, validate, merge)

DefinitionSpec == Init /\ [][DefinitionNext]_vars

\* ------------------------------------------------------------------------
\* Properties
\* ------------------------------------------------------------------------
OpenSessions == DOMAIN sessions

\* "A tool is enabled iff spec.tools[toolName].enabled is absent or true"
EnabledInCatalog(cat) ==
    { <<d.upstreamName, d.toolName>> :
        d \in { e \in cat : e.enabled = Undefined \/ e.enabled = "true" } }

AllowedByResolver(scope, user) ==
    { p \in Servers \X ToolNames :
        \E r \in Resolver(scope, user, settings, groups) :
            r.upstreamName = p[1] /\ p[2] \in r.allowedTools }

SelectedEntries(sid) ==
    LET sc == sessions[sid].scope
    IN  IF sc.kind = "group" /\ sc.id \in DOMAIN groups
          THEN { n \in DOMAIN groups[sc.id].servers :
                   groups[sc.id].servers[n].hasSelected }
          ELSE {}

SelectedOf(sid, n) == groups[sessions[sid].scope.id].servers[n].selectedTools

ListWithin(nonEmptyOnly) ==
    \A sid \in OpenSessions : \A n \in SelectedEntries(sid) :
        (nonEmptyOnly => SelectedOf(sid, n) # {}) =>
            \A i \in View(sessions[sid]) :
                i.upstreamName = n => i.toolName \in SelectedOf(sid, n)

\* a tools/call step of a session on a group scope, for a tool outside the
\* entry's selectedTools, is not forwarded and fails with ToolNotAllowed
CallWithin(nonEmptyOnly) ==
    lastCall' # lastCall =>
        LET sid == lastCall'.session
        IN  \A n \in SelectedEntries(sid) :
              (nonEmptyOnly => SelectedOf(sid, n) # {}) =>
                /\ (lastCall'.outcome = "forwarded" /\ lastCall'.upstreamName = n)
                      => lastCall'.toolName \in SelectedOf(sid, n)
                /\ \A d \in catalog :
                      ( /\ d.upstreamName = n
                        /\ d.toolName \notin SelectedOf(sid, n)
                        /\ lastCall'.name = EffectiveName(d, catalog)
                        /\ \A i \in View(sessions[sid]) : i.name # lastCall'.name )
                      => lastCall'.outcome = "ToolNotAllowed"

OwnedOrPublic(resource, user) == resource.owner = NoOwner \/ resource.owner = user.id

AllScopes ==
    {Global, Smart} \cup { Scope("upstream", n) : n \in Servers }
    \cup { Scope("group", g) : g \in GroupIds }

Saves(h) == handlers[h].pc = "loaded" /\ handlers'[h].pc = "saved"

\* C4: settings mutations are applied one at a time, in one total order:
\* every save stores the mutation applied to the settings current at the
\* save, so that the effect of no earlier mutation is lost
C4_NoLostUpdate ==
    [][ \A h \in Handlers :
          Saves(h) =>
              /\ HandlerError(handlers[h].op, handlers[h].args, settings) = "ok"
              /\ settings' = HandlerResult(handlers[h].op, handlers[h].args, settings)
      ]_vars

\* the runtimes already match the connection-relevant fields of the settings
InSync(s, rts) ==
    /\ LiveNames(rts) = EnabledNames(s)
    /\ \A r \in rts :
          /\ r.command = s[r.name].command
          /\ r.type = s[r.name].type
          /\ r.url = s[r.name].url

\* a handler returns from its reinitialization in this step
Reconciles(h) ==
    handlers[h].pc = "saved" /\ handlers'[h].pc = "idle" /\ handlers[h].op \in ReinitOps

\* C8: the reconciliation that follows a save of settings whose content the
\* runtimes already reflect changes no runtime: no state transition and no
\* reconnect
C8_SameContentNoOp ==
    [][ \A h \in Handlers :
          (Reconciles(h) /\ InSync(settings, runtimes)) => runtimes' = runtimes ]_vars

OverlayOps == {"toggle_tool", "update_tool_metadata", "batch_toggle_tools"}

C13_RetriedForever == conn.status = "disconnected" => conn.retryCount = 0

\* C13: a reconnecting (degraded) connection moves only to connecting, when
\* its delay is over; at most maxRetries retries follow one another; a
\* failure after the last of them leaves the connection disconnected, and a
\* connection left so makes no further step
C13_BoundedRetries ==
    [][/\ conn.status = "reconnecting" /\ conn' # conn
            => conn'.status = "connecting"
       /\ conn'.retryCount <= maxRetries
       /\ conn.retryCount = maxRetries /\ conn.status # "reconnecting"
            => conn'.status # "reconnecting"
       /\ conn'.status = "disconnected" /\ conn.status # "disconnected"
            => conn.retryCount = maxRetries
       /\ conn.status = "disconnected" /\ conn.retryCount > 0
            => conn' = conn]_vars

\* the last retry is under way
C13_Witness == conn.status = "connecting" /\ conn.retryCount = maxRetries

C15_TwoConsecutiveFailures ==
    [][/\ conn'.status = "connected" => conn'.keepAlive
       /\ conn.status = "connected" /\ conn'.lastRequest = "ping"
            /\ conn'.lastPing = "fail"
              => (conn'.status = "reconnecting" <=> conn.lastPing = "fail")]_vars

\* a delete_server or toggle_server handler returns in this step
Closes(h) ==
    /\ handlers[h].pc = "saved" /\ handlers'[h].pc = "idle"
    /\ handlers[h].op \in {"delete_server", "toggle_server"}

ValidDefinition(e) ==
    /\ e.type = "stdio" => e.command # ""
    /\ e.type \in {"sse", "streamable-http"} => e.url # Undefined

\* C17: no mutation of the settings, by add_server, update_server or
\* import_configuration, ever stores an invalid upstream definition (a stdio
\* upstream with no command, an sse upstream with no url): such a mutation is
\* rejected and the settings stay as they were
C17_InvalidRejected ==
    \A n \in DOMAIN settings : ValidDefinition(settings[n])

\* the upstreams of the filtered set f under which toolName occurs
UpstreamsOffering(f, toolName) ==
    { e.upstreamName : e \in { x \in f : x.toolName = toolName } }

Hits == { i \in View(sessions[lastCall'.session]) : i.name = lastCall'.name }

Forwarded ==
    /\ lastCall'.outcome = "forwarded"
    /\ \E i \in Hits : /\ lastCall'.upstreamName = i.upstreamName
                        /\ lastCall'.toolName = i.toolName

InCatalog(server, tool) ==
    \E d \in catalog \cup EffectiveDescriptors(settings, runtimes) :
        d.upstreamName = server /\ d.toolName = tool

\* C20: a call_tool of a smart session is forwarded to the upstream only if
\* the named upstream and tool are in the catalog and the upstream is
\* visible to the session's principal
C20_SmartCallChecked ==
    [][lastCall' # lastCall /\ lastCall'.name = "call_tool"
         /\ lastCall'.outcome = "forwarded"
           => /\ InCatalog(lastCall'.upstreamName, lastCall'.toolName)
              /\ VisibleUpstream(settings, lastCall'.upstreamName,
                                 lastCall'.principal)]_vars

\* C21: search_tools never returns a key that is absent from the current
\* tool catalog, also when the vector index still holds a row of a tool
\* that is gone
C21_SearchWithinCatalog ==
    [][lastSearch' # lastSearch
         => \A row \in lastSearch' : InCatalog(row.server_name, row.tool_name)]_vars

\* the upstreams the resolver returns for an open session
Resolved(sess) == Resolver(sess.scope, sess.principal, settings, groups)

C24_DestroyedOnlyWhenIdle ==
    [][\A sessionId \in DOMAIN idle.live \ DOMAIN idle'.live :
          \/ idle'.cause = "close"
          \/ idle.now - idle.live[sessionId].lastActivity >= SESSION_TIMEOUT]_vars

\* the calls of session sid that were sent upstream and are unanswered
InFlight(sid) ==
    {id \in DOMAIN calls : calls[id].session = sid /\ calls[id].outcome = "inflight"}

ReadyUpstream(name) == \E r \in runtimes : r.name = name /\ r.state = "ready"

Failing == {h \in Handlers : handlers[h].pc = "loaded" /\ handlers'[h].pc = "idle"}

\* C27: a failed request is answered with an MCP error response; a failure
\* is never delivered as a successful result
C27_FailureIsMcpError ==
    [][\A h \in Failing :
          HubCallTool(HandlerError(handlers[h].op, handlers[h].args,
                                   handlers[h].local)).jsonrpc = "error"]_vars

\* the performDatabaseInitialization runs that have not finished
Performing(d) == {p \in DOMAIN d.promises : d.promises[p] = "pending"}

\* C28: an initializeDatabase called while an earlier initialization is in
\* progress starts no second one and waits for the one in progress
C28_JoinsInProgress ==
    [][Performing(db) # {}
         => /\ Len(db'.promises) = Len(db.promises)
            /\ \A c \in DbCallers :
                  db.callers[c].pc # "awaiting" /\ db'.callers[c].pc = "awaiting"
                    => db'.callers[c].promise \in Performing(db)]_vars

\* C29: whenever initializeDatabase resolves, the DataSource it returns is
\* initialized, after any sequence of initializeDatabase, closeDatabase and
\* reconnectDatabase
C29_ResolvedIsInitialized ==
    \A c \in DbCallers :
        db.callers[c].op = "initializeDatabase"
          => db.callers[c].result # "uninitialized"

\* C30: at most one performDatabaseInitialization is in flight at any time
C30_OnePerformInFlight == Cardinality(Performing(db)) <= 1

\* C31: when an initialization fails the stored promise is cleared; a later
\* initializeDatabase never returns the earlier failure, it waits for an
\* attempt that is still running or starts a fresh one
C31_FailureCleared ==
    [][/\ \A p \in DOMAIN db.promises :
             db.promises[p] = "pending" /\ db'.promises[p] = "rejected"
               => db'.initializationPromise = 0
       /\ db'.initializationPromise # 0
             => db'.promises[db'.initializationPromise] # "rejected"
       /\ \A c \in DbCallers :
             /\ db.callers[c].pc = "idle"
             /\ db'.callers[c].op = "initializeDatabase"
             /\ db'.callers[c] # db.callers[c]
             => IF db'.callers[c].pc = "awaiting"
                  THEN db'.promises[db'.callers[c].promise] = "pending"
                  ELSE db'.callers[c].result # "rejected"]_vars

\* the first initialization failed and an initializeDatabase called after
\* it is waiting for a fresh one
C31_Witness ==
    /\ Len(db.promises) = 2
    /\ db.promises[1] = "rejected"
    /\ db.promises[2] = "pending"
    /\ db.initializationPromise = 2
    /\ \E c \in DbCallers :
          /\ db.callers[c].op = "initializeDatabase"
          /\ db.callers[c].pc = "awaiting"
          /\ db.callers[c].promise = 2

\* the conversations one more message can lead to
Successors(c) ==
    { Processed(c, userMessage, e).conversation :
         userMessage \in Messages, e \in Outcomes }

\* some sequence of messages leads from a conversation of frontier to stage
\* 'completed'; seen: the conversations already tried
RECURSIVE Completes(_, _)
Completes(seen, frontier) ==
    IF \E c \in frontier : c.stage = "completed" THEN TRUE
    ELSE LET next == UNION { Successors(c) : c \in frontier }
                        \ (seen \cup frontier)
         IN  IF next = {} THEN FALSE
             ELSE Completes(seen \cup frontier, next)

\* C32: no conversation stage is a dead end: from every stage a stored
\* conversation is in when processMessage has returned, some sequence of
\* user messages leads to stage 'completed'
C32_NoDeadEnd ==
    \A id \in DOMAIN chat.conversations :
        Completes({}, {chat.conversations[id]})

\* C33: when processMessage has returned a response with a nextStage, the
\* stage stored for the conversation is that nextStage, also when the
\* response is the one returned after an exception
C33_StageIsNextStage ==
    /\ chat.reply.endpoint = "sendMessage"
    /\ chat.reply.code = 200
    /\ chat.reply.nextStage # Undefined
    => chat.conversations[chat.reply.conversationId].stage
          = chat.reply.nextStage

\* C34: a message for a conversation id that is not stored fails with
\* 'Conversation not found', the endpoint answers 404, no conversation
\* changes and no group is created
C34_UnknownConversation ==
    [][(/\ chat' # chat
        /\ chat'.reply.endpoint = "sendMessage"
        /\ chat'.reply.conversationId \notin DOMAIN chat.conversations)
          => /\ chat'.reply.code = 404
             /\ chat'.reply.error = "Conversation not found"
             /\ chat'.conversations = chat.conversations
             /\ chat'.reply.created = <<>>]_vars

\* a message for a conversation that never was started was answered 404,
\* while another conversation is stored, with proposals
C34_Witness ==
    /\ chat.reply.endpoint = "sendMessage"
    /\ chat.reply.code = 404
    /\ chat.reply.conversationId \notin chat.started
    /\ \E id \in DOMAIN chat.conversations :
          chat.conversations[id].stage = "presenting_proposals"

\* C35: send_smart_group_message with a conversationId that
\* start_smart_group_conversation returned is processed in that
\* conversation; it does not fail with 'Conversation not found'
C35_ToolFindsConversation ==
    /\ chat.reply.endpoint = "send_smart_group_message"
    /\ chat.reply.conversationId \in chat.returned
    => chat.reply.error # "Conversation not found"

\* C40: in stage 'presenting_proposals' the suggestion 'Create only the top
\* 3 groups' creates the first three proposals, when createGroup succeeds
C40_TopThreeCreated ==
    \A id \in DOMAIN chat.conversations :
        chat.conversations[id].stage = "presenting_proposals"
          => \A e \in {o \in Outcomes : o.createGroup = "all"} :
                Processed(chat.conversations[id],
                          "Create only the top 3 groups", e).created
                   = Ranks(IF chat.conversations[id].proposals < 3
                             THEN chat.conversations[id].proposals ELSE 3)

\* C39: the proposals analyzeAndProposeGroups returns contain no
\* duplicates: no two of them have tool sets that overlap by more than 70%
C39_NoDuplicates ==
    \A i, j \in DOMAIN proposed.returned :
        i < j => ~Overlapping(proposed.returned[i], proposed.returned[j])

\* C38: a configuration exported without includeSecrets contains no API
\* key, password, secret or token value that the stored settings hold
C38_NoSecretExported ==
    vault.includeSecrets = "false"
      => /\ vault.stored.openaiApiKey # Undefined
              => vault.exported.openaiApiKey # vault.stored.openaiApiKey
         /\ \A key \in DOMAIN vault.stored.env :
               KeyWords(key) # {}
                 => vault.exported.env[key] # vault.stored.env[key]

\* where a handler is in the order of registration, 0 when it is not
Position(handler) ==
    IF \E i \in DOMAIN app.routes : app.routes[i] = handler
      THEN CHOOSE i \in DOMAIN app.routes : app.routes[i] = handler
      ELSE 0

\* C37: no MCP session endpoint answers a request before the upstream
\* initialization has completed: the session routes are registered only
\* once initUpstreamServers has resolved, and then before the frontend
\* handler; the hub-management virtual server is registered before any
\* upstream is initialized
C37_SessionsAfterUpstreams ==
    /\ app.answeredBy = "mcp" => app.promise = "resolved"
    /\ Position("mcp") # 0 => app.promise = "resolved"
    /\ Position("mcp") # 0 /\ Position("frontend") # 0
          => Position("mcp") < Position("frontend")
    /\ app.promise # "none" => "hub-management" \in app.virtualServers
    /\ (\E n \in Upstreams : app.upstreams[n] # "idle")
          => "hub-management" \in app.virtualServers

\* a session endpoint has answered, after both upstreams were initialized
\* and with the frontend registered after it
C37_Witness ==
    /\ app.answeredBy = "mcp"
    /\ app.path = "/alice/sse"
    /\ Position("frontend") > Position("mcp")
    /\ app.upstreams["A"] = "connected"
    /\ app.upstreams["B"] = "failed"

\* C36: the virtual and the standalone hub-management server accept and
\* reject the same add_server inputs: called with the same arguments on the
\* same settings, both add the server or both refuse
C36_SameAddServer ==
    [][(twin' # twin /\ twin.virtual = twin.standalone)
          => /\ twin'.virtual = twin'.standalone
             /\ (twin'.virtualAnswer.text = "ok")
                   <=> (twin'.standaloneAnswer.jsonrpc = "result")]_vars

====
